---- MODULE Spec2Model ----
(***************************************************************************)
(* Model of the stock prediction pipeline: the indicators and the feature  *)
(* table (backend/app/services/data_analyzer.py), the clustering strategy  *)
(* (backend/app/services/predictor.py) and the prediction route with its   *)
(* strategy and buy-and-hold metrics (backend/app/routes/prediction.py).   *)
(*                                                                         *)
(* Floating point numbers are modelled as exact reals: a rational is a     *)
(* reduced fraction, mean/std * sqrt(..) is a signed square root of a      *)
(* rational, and base ** exp - 1 is kept as the pair (base, exp).          *)
(***************************************************************************)
EXTENDS Integers, Sequences, FiniteSets, TLC

(***************************************************************************)
(* Exact arithmetic                                                        *)
(***************************************************************************)
Abs(n) == IF n < 0 THEN -n ELSE n

RECURSIVE GCD(_, _)
GCD(a, b) == IF b = 0 THEN a ELSE GCD(b, a % b)

\* The reduced fraction n/d (d # 0), with a positive denominator.
Frac(n, d) ==
    LET g == GCD(Abs(n), Abs(d))
        s == IF d < 0 THEN -1 ELSE 1
    IN  [num |-> (s * n) \div g, den |-> (s * d) \div g]

Whole(n) == [num |-> n, den |-> 1]

FAdd(a, b) == Frac(a.num * b.den + b.num * a.den, a.den * b.den)
FSub(a, b) == Frac(a.num * b.den - b.num * a.den, a.den * b.den)
\* Cross-reduced before multiplying, so that no intermediate product is
\* larger than the result.
FMul(a, b) ==
    LET g1 == GCD(Abs(a.num), b.den)
        g2 == GCD(Abs(b.num), a.den)
    IN  Frac((a.num \div g1) * (b.num \div g2), (a.den \div g2) * (b.den \div g1))
FDiv(a, b) == FMul(a, Frac(b.den, b.num))
FLt(a, b) == a.num * b.den < b.num * a.den
FLe(a, b) == a.num * b.den <= b.num * a.den
FSign(a) == IF a.num > 0 THEN 1 ELSE IF a.num < 0 THEN -1 ELSE 0
FMax(a, b) == IF FLt(a, b) THEN b ELSE a
FMin(a, b) == IF FLt(b, a) THEN b ELSE a

\* Sum, product and least common multiple of ns[lo..hi], by halves.
RECURSIVE SumRange(_, _, _)
SumRange(ns, lo, hi) ==
    IF lo > hi THEN 0
    ELSE IF lo = hi THEN ns[lo]
    ELSE LET mid == (lo + hi) \div 2
         IN  SumRange(ns, lo, mid) + SumRange(ns, mid + 1, hi)

RECURSIVE ProdRange(_, _, _)
ProdRange(ns, lo, hi) ==
    IF lo > hi THEN 1
    ELSE IF lo = hi THEN ns[lo]
    ELSE LET mid == (lo + hi) \div 2
         IN  ProdRange(ns, lo, mid) * ProdRange(ns, mid + 1, hi)

Lcm(a, b) == (a * b) \div GCD(a, b)

RECURSIVE LcmRange(_, _, _)
LcmRange(ns, lo, hi) ==
    IF lo > hi THEN 1
    ELSE IF lo = hi THEN ns[lo]
    ELSE LET mid == (lo + hi) \div 2
         IN  Lcm(LcmRange(ns, lo, mid), LcmRange(ns, mid + 1, hi))

SumTo(ns, n) == SumRange(ns, 1, n)
ProdTo(ns, n) == ProdRange(ns, 1, n)
LcmTo(ns, n) == LcmRange(ns, 1, n)

\* The rationals xs over their common denominator.
Dens(xs) == [i \in 1..Len(xs) |-> xs[i].den]
CommonDen(xs) == LcmTo(Dens(xs), Len(xs))
Nums(xs) ==
    LET d == CommonDen(xs)
    IN  [i \in 1..Len(xs) |-> xs[i].num * (d \div xs[i].den)]

\* Sum and product of the first n of the rationals xs.
FSumTo(xs, n) == Frac(SumTo(Nums(xs), n), CommonDen(xs))
FSum(xs) == FSumTo(xs, Len(xs))
FProdTo(xs, n) ==
    Frac(ProdTo([i \in 1..Len(xs) |-> xs[i].num], n), ProdTo(Dens(xs), n))

\* Largest and smallest of a non-empty set of rationals.
FMaxOf(S) == CHOOSE m \in S : \A x \in S : FLe(x, m)
FMinOf(S) == CHOOSE m \in S : \A x \in S : FLe(m, x)

(***************************************************************************)
(* Values of the program                                                   *)
(***************************************************************************)
\* A Python str.
StrVal(s) == [kind |-> "str", str |-> s]
\* float('nan').
NaN == [kind |-> "nan"]
\* A float whose value is the rational f.
RatVal(f) == [kind |-> "rat", rat |-> f]
\* A float whose value is sgn * sqrt(sq), sq a rational >= 0; zero is
\* (0, 0), so two such values are equal exactly when their records are.
SurdVal(sgn, sq) ==
    IF sgn = 0 \/ sq.num = 0
    THEN [kind |-> "surd", sgn |-> 0, sq |-> Whole(0)]
    ELSE [kind |-> "surd", sgn |-> sgn, sq |-> sq]
\* A float whose value is base ** exp - 1, base a rational > 0.
PowVal(base, exp) == [kind |-> "pow", base |-> base, exp |-> exp]
\* float('inf') and float('-inf').
Inf(sgn) == [kind |-> "inf", sgn |-> sgn]

\* The largest k with 2 ** k <= f, for a rational f >= 1 (0 below 1).
RECURSIVE Log2Floor(_)
Log2Floor(f) ==
    IF FLt(f, Whole(2)) THEN 0 ELSE 1 + Log2Floor(FDiv(f, Whole(2)))

\* base ** exp is beyond the largest float64 (just under 2 ** 1024), where
\* numpy gives inf. Decided on the integer part of log2(base): exact for
\* every base here, none of which has exp * log2(base) within exp of 1024.
OverflowsFloat(base, exp) ==
    FLe(Whole(1024), FMul(exp, Whole(Log2Floor(base))))

\* base ** exp - 1 for a numpy float64 base > 0.
Power(base, exp) ==
    IF OverflowsFloat(base, exp) THEN Inf(1) ELSE PowVal(base, exp)

IsNumber(v) == v.kind \in {"rat", "surd", "pow"}

\* The multiplicity of the prime p in n > 0, and in a positive fraction.
RECURSIVE Vp(_, _)
Vp(n, p) == IF n % p = 0 THEN 1 + Vp(n \div p, p) ELSE 0
VpF(f, p) == Vp(f.num, p) - Vp(f.den, p)
IsPrime(p) == p > 1 /\ \A q \in 2..(p - 1) : p % q # 0

\* a.base ** a.exp = b.base ** b.exp as reals (bases > 0): every prime
\* has the same (rational) multiplicity on both sides.
PowEq(a, b) ==
    LET m == FMax(FMax(Whole(a.base.num), Whole(a.base.den)),
                  FMax(Whole(b.base.num), Whole(b.base.den))).num
    IN  \A p \in 2..m :
            IsPrime(p) =>
                VpF(a.base, p) * a.exp.num * b.exp.den
                    = VpF(b.base, p) * b.exp.num * a.exp.den

\* v as base ** exp - 1, for a rational or a power.
AsPow(v) ==
    IF v.kind = "rat" THEN PowVal(FAdd(v.rat, Whole(1)), Whole(1)) ELSE v

\* Equality of two numbers as reals.
RealEq(a, b) ==
    /\ IsNumber(a)
    /\ IsNumber(b)
    /\ IF a.kind = "surd" \/ b.kind = "surd"
       THEN a = b
       ELSE IF FSign(AsPow(a).base) <= 0 \/ FSign(AsPow(b).base) <= 0
            THEN AsPow(a) = AsPow(b)
            ELSE PowEq(AsPow(a), AsPow(b))

IsZero(v) ==
    \/ v.kind = "rat" /\ v.rat.num = 0
    \/ v.kind = "surd" /\ v.sgn = 0
    \/ v.kind = "pow" /\ v.base = Whole(1)

(***************************************************************************)
(* pandas Series: a sequence of [date, val], dates ascending               *)
(***************************************************************************)
Vals(s) == [i \in 1..Len(s) |-> s[i].val]

\* returns[predictions == 1]: the entries of s where the mask series is 1.
Masked(s, mask) ==
    LET idx == SelectSeq([i \in 1..Len(s) |-> i], LAMBDA i : mask[i].val = 1)
    IN  [k \in 1..Len(idx) |-> s[idx[k]]]

\* Series.mean() of a non-empty sequence of rationals.
Mean(xs) == FDiv(FSum(xs), Whole(Len(xs)))

\* Series.std() ** 2 (sample variance, ddof = 1) for Len(xs) > 1: the sum of
\* the squared deviations from the mean over n - 1. With the returns
\* num[i] / d, the i-th deviation is (n * num[i] - sum) / (n * d).
Variance(xs) ==
    LET n == Len(xs)
        d == CommonDen(xs)
        nums == Nums(xs)
        sum == SumTo(nums, n)
        devsq == [i \in 1..n |-> (n * nums[i] - sum) * (n * nums[i] - sum)]
    IN  FDiv(Frac(SumTo(devsq, n), n * n * d * d), Whole(n - 1))

\* (series > 0).sum()
CountPositive(xs) == Cardinality({i \in 1..Len(xs) : xs[i].num > 0})

\* (1 + series).cumprod()
CumProd(xs) ==
    LET factors == [i \in 1..Len(xs) |-> FAdd(Whole(1), xs[i])]
    IN  [i \in 1..Len(xs) |-> FProdTo(factors, i)]

\* series.expanding(min_periods=1).max()
ExpandingMax(xs) ==
    [i \in 1..Len(xs) |-> FMaxOf({xs[j] : j \in 1..i})]

SeqMin(xs) == FMinOf({xs[i] : i \in 1..Len(xs)})

(***************************************************************************)
(* routes/prediction.py: the metrics                                       *)
(***************************************************************************)
TradingDays == 252

\* 365.25 days, as a fraction.
DaysPerYear == Frac(1461, 4)

\* mean / std * sqrt(scale) for std # 0.
SharpeOf(xs, scale) ==
    LET m == Mean(xs)
    IN  SurdVal(FSign(m), FMul(FDiv(FMul(m, m), Variance(xs)), scale))

ZeroTradeMetrics ==
    [sharpe_ratio |-> StrVal("None"),
     annual_return |-> StrVal("None"),
     win_rate |-> StrVal("None"),
     max_drawdown |-> StrVal("None"),
     total_trades |-> 0,
     winning_trades |-> 0,
     strategy_status |-> "HOLD - No trading signals produced in the last 20 trading days"]

\* Variant: the returns of every day, traded or not.
StrategyReturnsUnmasked(predictions, returns) == Vals(returns)

\* returns[predictions == 1]
StrategyReturns(predictions, returns) == Vals(Masked(returns, predictions))

\* Variant: annualised over calendar days instead of trading days.
StrategySharpeCalendar(strategy_returns, total_days) ==
    LET total_trades == Len(strategy_returns)
    IN  IF total_trades > 1
        THEN IF Variance(strategy_returns).num # 0
             THEN SharpeOf(strategy_returns,
                           FMul(DaysPerYear, Frac(total_trades, total_days)))
             ELSE SurdVal(0, Whole(0))
        ELSE SurdVal(0, Whole(0))

StrategySharpe(strategy_returns, total_days) ==
    LET total_trades == Len(strategy_returns)
    IN  IF total_trades > 1
        THEN IF Variance(strategy_returns).num # 0
             THEN SharpeOf(strategy_returns,
                           FMul(Whole(TradingDays), Frac(total_trades, total_days)))
             ELSE SurdVal(0, Whole(0))
        ELSE SurdVal(0, Whole(0))

StrategyAnnualReturn(strategy_returns, returns) ==
    LET cumulative == FProdTo([i \in 1..Len(strategy_returns) |->
                                  FAdd(Whole(1), strategy_returns[i])],
                              Len(strategy_returns))
        days_in_period == returns[Len(returns)].date - returns[1].date
    IN  IF days_in_period > 0
        THEN Power(cumulative, FDiv(DaysPerYear, Whole(days_in_period)))
        ELSE RatVal(Whole(0))

MaxDrawdown(strategy_returns) ==
    LET cumulative_returns == CumProd(strategy_returns)
        peak == ExpandingMax(cumulative_returns)
        drawdown == [i \in 1..Len(cumulative_returns) |->
                        FDiv(FSub(cumulative_returns[i], peak[i]), peak[i])]
    IN  RatVal(SeqMin(drawdown))

calculate_strategy_metrics(predictions, returns) ==
    LET strategy_returns == StrategyReturns(predictions, returns)
        total_trades == Len(strategy_returns)
        winning_trades == CountPositive(strategy_returns)
    IN  IF total_trades = 0
        THEN ZeroTradeMetrics
        ELSE [sharpe_ratio |-> StrategySharpe(strategy_returns, Len(returns)),
              annual_return |-> StrategyAnnualReturn(strategy_returns, returns),
              win_rate |-> RatVal(Frac(winning_trades, total_trades)),
              max_drawdown |-> MaxDrawdown(strategy_returns),
              total_trades |-> total_trades,
              winning_trades |-> winning_trades]

BaselineSharpe(xs) ==
    IF Variance(xs).num # 0
    THEN SharpeOf(xs, Whole(TradingDays))
    ELSE SurdVal(0, Whole(0))

BaselineAnnualReturn(xs) ==
    IF FLt(Whole(-1), Mean(xs))
    THEN Power(FAdd(Whole(1), Mean(xs)), Whole(TradingDays))
    ELSE RatVal(Whole(-1))

\* Variant: the annual return is computed from a single observation too.
calculate_baseline_metrics_from_one(returns) ==
    LET xs == Vals(returns)
    IN  IF Len(xs) = 0
        THEN [accuracy |-> RatVal(Whole(0)),
              sharpe_ratio |-> SurdVal(0, Whole(0)),
              annual_return |-> RatVal(Whole(0))]
        ELSE [accuracy |-> RatVal(Frac(CountPositive(xs), Len(xs))),
              sharpe_ratio |-> IF Len(xs) > 1 THEN BaselineSharpe(xs)
                               ELSE SurdVal(0, Whole(0)),
              annual_return |-> BaselineAnnualReturn(xs)]

calculate_baseline_metrics(returns) ==
    LET xs == Vals(returns)
    IN  IF Len(xs) = 0
        THEN [accuracy |-> RatVal(Whole(0)),
              sharpe_ratio |-> SurdVal(0, Whole(0)),
              annual_return |-> RatVal(Whole(0))]
        ELSE [accuracy |-> RatVal(Frac(CountPositive(xs), Len(xs))),
              sharpe_ratio |-> IF Len(xs) > 1 THEN BaselineSharpe(xs)
                               ELSE SurdVal(0, Whole(0)),
              annual_return |-> IF Len(xs) > 1 THEN BaselineAnnualReturn(xs)
                                ELSE RatVal(Whole(0))]


\* The date of the i-th trading day, in days: five trading days a week.
TradingDate(i) == i + 2 * ((i - 1) \div 5)

Tuples(n, S) == [1..n -> S]

(***************************************************************************)
(* services/predictor.py: UnsupervisedStrategyAnalyzer                     *)
(*                                                                         *)
(* A row of the feature table carries the columns the strategy reads by    *)
(* name (return_1d, rsi, vol) and, once trained, the cluster column; the   *)
(* other feature columns only enter the scaler and KMeans.                 *)
(***************************************************************************)
NoCluster == -1

MinGoodSize == 5
RsiLow == 30
RsiHigh == 70
MinGoodSharpe == Frac(1, 5)
MinGoodWinRate == Frac(45, 100)
VolFactor == Frac(3, 2)

Column(data, name) == [i \in 1..Len(data) |-> data[i][name]]

\* self.data[self.data['cluster'] == cluster]['return_1d']
ClusterReturns(data, cluster) ==
    LET idx == SelectSeq([i \in 1..Len(data) |-> i],
                         LAMBDA i : data[i].cluster = cluster)
    IN  [k \in 1..Len(idx) |-> data[idx[k]].return_1d]

\* cluster_returns.mean() / cluster_returns.std() if std != 0 else 0; the
\* std of a single return is NaN, which is != 0 and makes the quotient NaN.
ClusterSharpe(cluster_returns) ==
    IF Len(cluster_returns) = 1
    THEN NaN
    ELSE IF Variance(cluster_returns).num # 0
         THEN SharpeOf(cluster_returns, Whole(1))
         ELSE SurdVal(0, Whole(0))

ClusterStats(cluster_returns) ==
    [mean_return |-> Mean(cluster_returns),
     sharpe |-> ClusterSharpe(cluster_returns),
     size |-> Len(cluster_returns),
     win_rate |-> Frac(CountPositive(cluster_returns), Len(cluster_returns))]

\* Variant: the loop starting at cluster 1.
TrainedPerformanceFromOne(data, n, old) ==
    LET fresh == {c \in 1..(n - 1) : Len(ClusterReturns(data, c)) > 0}
    IN  [c \in fresh \cup DOMAIN old |->
            IF c \in fresh THEN ClusterStats(ClusterReturns(data, c)) ELSE old[c]]

\* The loop of train(): an entry is written for every cluster id that has
\* rows; the entries of the other ids are left as they were.
TrainedPerformance(data, n, old) ==
    LET fresh == {c \in 0..(n - 1) : Len(ClusterReturns(data, c)) > 0}
    IN  [c \in fresh \cup DOMAIN old |->
            IF c \in fresh THEN ClusterStats(ClusterReturns(data, c)) ELSE old[c]]

\* self.data['cluster'] = self.clusters
WithClusters(data, labels) ==
    [i \in 1..Len(data) |-> [data[i] EXCEPT !.cluster = labels[i]]]

\* v > f for a float v and a rational f >= 0 (False for NaN).
ExceedsFrac(v, f) ==
    /\ v.kind = "surd"
    /\ v.sgn = 1
    /\ FLt(FMul(f, f), v.sq)

\* The test of predict() that puts a cluster into good_clusters.
GoodPerformance(stats) ==
    /\ ~(stats.size < MinGoodSize)
    /\ ExceedsFrac(stats.sharpe, MinGoodSharpe)
    /\ FLt(Whole(0), stats.mean_return)
    /\ FLt(MinGoodWinRate, stats.win_rate)

GoodClusters(performance) ==
    {c \in DOMAIN performance : GoodPerformance(performance[c])}

\* Variant: the rsi bounds included.
RsiFilterInclusive(row) == row.rsi >= RsiLow /\ row.rsi <= RsiHigh

RsiFilter(row) == row.rsi > RsiLow /\ row.rsi < RsiHigh

\* self.data['vol'] <= self.data['vol'].mean() * 1.5
VolFilter(data, row) ==
    LET vols == [i \in 1..Len(data) |-> Whole(data[i].vol)]
    IN  FLe(Whole(row.vol), FMul(Mean(vols), VolFactor))

\* Variant: the series on a fresh positional index.
PredictPositional(data, performance) ==
    LET good_clusters == GoodClusters(performance)
    IN  [i \in 1..Len(data) |->
            [date |-> i,
             val |-> IF /\ data[i].cluster \in good_clusters
                        /\ RsiFilter(data[i])
                        /\ VolFilter(data, data[i])
                     THEN 1 ELSE 0]]

\* predict() after the trained check: a 0/1 series on the index of data.
Predict(data, performance) ==
    LET good_clusters == GoodClusters(performance)
    IN  [i \in 1..Len(data) |->
            [date |-> data[i].date,
             val |-> IF /\ data[i].cluster \in good_clusters
                        /\ RsiFilter(data[i])
                        /\ VolFilter(data, data[i])
                     THEN 1 ELSE 0]]

\* evaluate(): the metrics the route reads.
Evaluate(clusters, n, performance) ==
    [cluster_performance |-> performance,
     cluster_sizes |-> [c \in 0..(n - 1) |->
                           Cardinality({i \in 1..Len(clusters) : clusters[i] = c})]]

(***************************************************************************)
(* Floats that may be undefined or infinite                                *)
(***************************************************************************)
\* A float whose value is rat + surd, surd a signed square root.
QSurd(rat, surd) == [kind |-> "qsurd", rat |-> rat, surd |-> surd]

IsNaN(v) == v.kind = "nan"
Num(n) == RatVal(Whole(n))

FlNeg(a) ==
    IF a.kind = "inf" THEN Inf(-a.sgn)
    ELSE IF a.kind = "rat" THEN RatVal(FSub(Whole(0), a.rat))
    ELSE a

\* a + b, a - b, a * b and a / b of IEEE floats (rationals, inf, nan).
FlAdd(a, b) ==
    IF IsNaN(a) \/ IsNaN(b) THEN NaN
    ELSE IF a.kind = "inf"
         THEN IF b.kind = "inf" /\ b.sgn # a.sgn THEN NaN ELSE a
    ELSE IF b.kind = "inf" THEN b
    ELSE RatVal(FAdd(a.rat, b.rat))

FlSub(a, b) == FlAdd(a, FlNeg(b))

FlMul(a, b) ==
    IF IsNaN(a) \/ IsNaN(b) THEN NaN
    ELSE IF a.kind = "inf" \/ b.kind = "inf"
         THEN LET sa == IF a.kind = "inf" THEN a.sgn ELSE FSign(a.rat)
                  sb == IF b.kind = "inf" THEN b.sgn ELSE FSign(b.rat)
              IN  IF sa * sb = 0 THEN NaN ELSE Inf(sa * sb)
    ELSE RatVal(FMul(a.rat, b.rat))

FlDiv(a, b) ==
    IF IsNaN(a) \/ IsNaN(b) THEN NaN
    ELSE IF a.kind = "inf"
         THEN IF b.kind = "inf" THEN NaN
              ELSE Inf(IF FSign(b.rat) < 0 THEN -a.sgn ELSE a.sgn)
    ELSE IF b.kind = "inf" THEN Num(0)
    ELSE IF b.rat.num = 0
         THEN IF a.rat.num = 0 THEN NaN ELSE Inf(FSign(a.rat))
    ELSE RatVal(FDiv(a.rat, b.rat))

(***************************************************************************)
(* pandas columns: sequences of floats over the index of the data          *)
(***************************************************************************)
\* A column with every entry computed (a tuple).
AsSeries(col) == SubSeq(col, 1, Len(col))

\* series.diff() and series.pct_change(periods)
Diff(col) ==
    AsSeries([i \in 1..Len(col) |->
                 IF i = 1 THEN NaN ELSE FlSub(col[i], col[i - 1])])

PctChange(col, periods) ==
    AsSeries([i \in 1..Len(col) |->
                 IF i <= periods THEN NaN
                 ELSE FlDiv(FlSub(col[i], col[i - periods]), col[i - periods])])

\* The window of a rolling(window) at row i, when it is full and has no
\* undefined entry (min_periods = window).
WindowAt(col, window, i) == [k \in 1..window |-> col[i - window + k].rat]

WindowDefined(col, window, i) ==
    /\ i >= window
    /\ \A k \in (i - window + 1)..i : col[k].kind = "rat"

\* series.rolling(window).mean()
RollingMean(col, window) ==
    AsSeries([i \in 1..Len(col) |->
                 IF WindowDefined(col, window, i)
                 THEN RatVal(Mean(WindowAt(col, window, i)))
                 ELSE NaN])

\* series.rolling(window).std() ** 2, a rational; the std of one value is
\* undefined.
RollingVar(col, window) ==
    AsSeries([i \in 1..Len(col) |->
                 IF window > 1 /\ WindowDefined(col, window, i)
                 THEN RatVal(Variance(WindowAt(col, window, i)))
                 ELSE NaN])

\* series.fillna(method='ffill') and series.fillna(method='bfill')
\* The last defined row at or before i, and the first at or after i.
LastDefined(col, i) ==
    {j \in 1..i : ~IsNaN(col[j]) /\ \A k \in (j + 1)..i : IsNaN(col[k])}

NextDefined(col, i) ==
    {j \in i..Len(col) : ~IsNaN(col[j]) /\ \A k \in i..(j - 1) : IsNaN(col[k])}

FFill(col) ==
    AsSeries([i \in 1..Len(col) |->
                 IF ~IsNaN(col[i]) THEN col[i]
                 ELSE IF LastDefined(col, i) = {} THEN NaN
                 ELSE col[CHOOSE j \in LastDefined(col, i) : TRUE]])

BFill(col) ==
    AsSeries([i \in 1..Len(col) |->
                 IF ~IsNaN(col[i]) THEN col[i]
                 ELSE IF NextDefined(col, i) = {} THEN NaN
                 ELSE col[CHOOSE j \in NextDefined(col, i) : TRUE]])

\* Variant: the default only where a forward and backward fill leave a gap.
FillNaAfterFills(col, value) ==
    LET filled == BFill(FFill(col))
    IN  AsSeries([i \in 1..Len(col) |->
                     IF IsNaN(filled[i]) THEN value ELSE filled[i]])

\* series.fillna(value)
FillNa(col, value) ==
    AsSeries([i \in 1..Len(col) |-> IF IsNaN(col[i]) THEN value ELSE col[i]])

(***************************************************************************)
(* services/data_analyzer.py: StockAnalyzer                                *)
(*                                                                         *)
(* data is the OHLCV frame: one column of floats per name, all over the    *)
(* same index 1..n. The analyzer is built without start_date and end_date, *)
(* as the prediction route builds it.                                      *)
(***************************************************************************)
RowsOf(data) == Len(data.Close)

\* The daily_returns property.
daily_returns(data) ==
    IF "Adj Close" \in DOMAIN data
    THEN PctChange(data["Adj Close"], 1)
    ELSE PctChange(data.Close, 1)

FlAbs(a) ==
    IF a.kind = "inf" THEN Inf(1)
    ELSE IF a.kind = "rat" THEN RatVal(Frac(Abs(a.rat.num), a.rat.den))
    ELSE a

\* Variant: the losses keep their sign.
calculate_rsi_signed_losses(data, window) ==
    LET delta == Diff(data.Close)
        gains == AsSeries([i \in 1..Len(delta) |->
                              IF delta[i].kind = "rat" /\ FSign(delta[i].rat) < 0
                              THEN Num(0) ELSE delta[i]])
        losses == AsSeries([i \in 1..Len(delta) |->
                               IF delta[i].kind = "rat"
                                  /\ FSign(delta[i].rat) > 0
                               THEN Num(0) ELSE delta[i]])
        avg_gains == RollingMean(gains, window)
        avg_losses == RollingMean(losses, window)
    IN  AsSeries([i \in 1..Len(delta) |->
                     LET rs == FlDiv(avg_gains[i], avg_losses[i])
                     IN  FlSub(Num(100), FlDiv(Num(100), FlAdd(Num(1), rs)))])

calculate_rsi(data, window) ==
    LET delta == Diff(data.Close)
        gains == AsSeries([i \in 1..Len(delta) |->
                              IF delta[i].kind = "rat" /\ FSign(delta[i].rat) < 0
                              THEN Num(0) ELSE delta[i]])
        losses == AsSeries([i \in 1..Len(delta) |->
                               FlAbs(IF delta[i].kind = "rat"
                                        /\ FSign(delta[i].rat) > 0
                                     THEN Num(0) ELSE delta[i])])
        avg_gains == RollingMean(gains, window)
        avg_losses == RollingMean(losses, window)
    IN  AsSeries([i \in 1..Len(delta) |->
                     LET rs == FlDiv(avg_gains[i], avg_losses[i])
                     IN  FlSub(Num(100), FlDiv(Num(100), FlAdd(Num(1), rs)))])

\* Variant: the deviation subtracted for the upper band and added for the
\* lower one.
BandAtSwapped(middle, var, num_std, side) ==
    IF IsNaN(middle) \/ IsNaN(var) THEN NaN
    ELSE QSurd(middle.rat,
               SurdVal(-side * FSign(num_std),
                       FMul(var.rat, FMul(num_std, num_std))))

\* middle +/- rolling_std * num_std, with rolling_std the square root of
\* the rational var.
BandAt(middle, var, num_std, side) ==
    IF IsNaN(middle) \/ IsNaN(var) THEN NaN
    ELSE QSurd(middle.rat,
               SurdVal(side * FSign(num_std),
                       FMul(var.rat, FMul(num_std, num_std))))

\* (close - lower) / (upper - lower) for the two bands of one row.
PercentB(close, lower, upper) ==
    IF IsNaN(close) \/ IsNaN(lower) \/ IsNaN(upper) THEN NaN
    ELSE LET above == FSub(close.rat, lower.rat)   \* close - middle
             dev == upper.surd                      \* rolling_std * num_std
         IN  IF dev.sgn = 0
             THEN IF above.num = 0 THEN NaN ELSE Inf(FSign(above))
             ELSE QSurd(Frac(1, 2),
                        SurdVal(dev.sgn * FSign(above),
                                FDiv(FMul(above, above),
                                     FMul(Whole(4), dev.sq))))

\* (upper - lower) / middle for one row.
Bandwidth(middle, upper) ==
    IF IsNaN(middle) \/ IsNaN(upper) THEN NaN
    ELSE LET dev == upper.surd
         IN  IF middle.rat.num = 0
             THEN IF dev.sgn = 0 THEN NaN ELSE Inf(dev.sgn)
             ELSE SurdVal(dev.sgn * FSign(middle.rat),
                          FDiv(FMul(Whole(4), dev.sq),
                               FMul(middle.rat, middle.rat)))

calculate_bollinger_bands(data, window, num_std) ==
    LET n == RowsOf(data)
        middle_band == RollingMean(data.Close, window)
        rolling_var == RollingVar(data.Close, window)
        upper_band ==
            AsSeries([i \in 1..n |->
                         BandAt(middle_band[i], rolling_var[i], num_std, 1)])
        lower_band ==
            AsSeries([i \in 1..n |->
                         BandAt(middle_band[i], rolling_var[i], num_std, -1)])
    IN  ("BB_Upper" :> upper_band)
        @@ ("BB_Middle" :> middle_band)
        @@ ("BB_Lower" :> lower_band)
        @@ ("BB_%B" :>
               AsSeries([i \in 1..n |->
                            PercentB(data.Close[i], lower_band[i], upper_band[i])]))
        @@ ("BB_Bandwidth" :>
               AsSeries([i \in 1..n |-> Bandwidth(middle_band[i], upper_band[i])]))

\* (annualized_vol.iloc[-1], annualized_vol): rolling_std * sqrt(252)
calculate_volatility(data, window) ==
    LET rolling_var == RollingVar(PctChange(data.Close, 1), window)
        annualized_vol ==
            AsSeries([i \in 1..RowsOf(data) |->
                         IF IsNaN(rolling_var[i]) THEN NaN
                         ELSE SurdVal(1, FMul(rolling_var[i].rat,
                                              Whole(TradingDays)))])
    IN  <<annualized_vol[RowsOf(data)], annualized_vol>>

\* The Garman-Klass estimate of one row: a float that the four prices
\* determine (a difference of squared logarithms), kept as the four prices.
GarmanKlass(high, low, close, open) ==
    IF IsNaN(high) \/ IsNaN(low) \/ IsNaN(close) \/ IsNaN(open) THEN NaN
    ELSE [kind |-> "gk", high |-> high.rat, low |-> low.rat,
          close |-> close.rat, open |-> open.rat]

calculate_garman_klass_volatility(data) ==
    AsSeries([i \in 1..RowsOf(data) |->
        GarmanKlass(data.High[i], data.Low[i], data.Close[i], data.Open[i])])

\* Close * Volume / 1e6
calculate_dollar_volume(data) ==
    AsSeries([i \in 1..RowsOf(data) |->
        FlDiv(FlMul(data.Close[i], data.Volume[i]), Num(1000000))])

RelativeVolumeFloor == RatVal(Frac(1, 10000))

\* Variant: only the infinite ratios replaced.
calculate_relative_volume_inf_only(data, window) ==
    LET volume_ma == RollingMean(data.Volume, window)
        nonzero_ma == AsSeries([i \in 1..RowsOf(data) |->
                                   IF volume_ma[i] = Num(0) THEN NaN
                                   ELSE volume_ma[i]])
    IN  AsSeries([i \in 1..RowsOf(data) |->
                     LET relative_vol == FlDiv(data.Volume[i], nonzero_ma[i])
                     IN  IF relative_vol.kind \in {"inf"}
                         THEN RelativeVolumeFloor ELSE relative_vol])

calculate_relative_volume(data, window) ==
    LET volume_ma == RollingMean(data.Volume, window)
        nonzero_ma == AsSeries([i \in 1..RowsOf(data) |->
                                   IF volume_ma[i] = Num(0) THEN NaN
                                   ELSE volume_ma[i]])
    IN  AsSeries([i \in 1..RowsOf(data) |->
                     LET relative_vol == FlDiv(data.Volume[i], nonzero_ma[i])
                     IN  IF relative_vol.kind \in {"inf", "nan"}
                         THEN RelativeVolumeFloor ELSE relative_vol])

\* f'momentum_{period}d'
MomentumKey(period) ==
    CASE period = 5 -> "momentum_5d"
      [] period = 10 -> "momentum_10d"
      [] period = 20 -> "momentum_20d"
      [] period = 50 -> "momentum_50d"

MomentumPeriods == {5, 10, 20, 50}

calculate_momentum(data, periods) ==
    [key \in {MomentumKey(p) : p \in periods} |->
        PctChange(data.Close,
                  CHOOSE p \in periods : MomentumKey(p) = key)]

\* Default arguments of the indicator methods.
RsiWindow == 14
BollingerWindow == 20
BollingerNumStd == 2
VolatilityWindow == 252
RelativeVolumeWindow == 20
\* Fewest fully defined rows prepare_features_for_clustering accepts.
MinValidRows == 20

Raised(error, message) ==
    [kind |-> "raised", error |-> error, message |-> message]

\* The columns of features, in the order the function assigns them.
FeatureColumns ==
    <<"return_1d", "vol", "momentum_20d", "rsi", "bb_position",
      "dollar_volume", "relative_volume", "garman_klass_vol">>

\* The columns as assigned, before the fill of the whole frame.
AssignedFeatures(data) ==
    LET n == RowsOf(data)
        vol_series == calculate_volatility(data, VolatilityWindow)[2]
        momentum_dict == calculate_momentum(data, MomentumPeriods)
        bb == calculate_bollinger_bands(data, BollingerWindow,
                                        Whole(BollingerNumStd))
    IN  [return_1d |-> FillNa(daily_returns(data), Num(0)),
         vol |-> FFill(vol_series),
         momentum_20d |->
             IF "20d" \in DOMAIN momentum_dict
             THEN FillNa(momentum_dict["momentum_20d"], Num(0))
             ELSE AsSeries([i \in 1..n |-> Num(0)]),
         rsi |-> FillNa(calculate_rsi(data, RsiWindow), Num(50)),
         bb_position |->
             FillNa([i \in 1..n |->
                        PercentB(data.Close[i], bb["BB_Lower"][i],
                                 bb["BB_Upper"][i])],
                    RatVal(Frac(1, 2))),
         dollar_volume |-> FFill(calculate_dollar_volume(data)),
         relative_volume |->
             FillNa(calculate_relative_volume(data, RelativeVolumeWindow),
                    Num(1)),
         garman_klass_vol |-> FFill(calculate_garman_klass_volatility(data))]

\* features.fillna(method='ffill').fillna(method='bfill')
\* Variant: the forward fill only.
FillFrameForwardOnly(features) ==
    [return_1d |-> FFill(features.return_1d),
     vol |-> FFill(features.vol),
     momentum_20d |-> FFill(features.momentum_20d),
     rsi |-> FFill(features.rsi),
     bb_position |-> FFill(features.bb_position),
     dollar_volume |-> FFill(features.dollar_volume),
     relative_volume |-> FFill(features.relative_volume),
     garman_klass_vol |-> FFill(features.garman_klass_vol)]

\* features.fillna(method='ffill').fillna(method='bfill')
FillFrame(features) ==
    [return_1d |-> BFill(FFill(features.return_1d)),
     vol |-> BFill(FFill(features.vol)),
     momentum_20d |-> BFill(FFill(features.momentum_20d)),
     rsi |-> BFill(FFill(features.rsi)),
     bb_position |-> BFill(FFill(features.bb_position)),
     dollar_volume |-> BFill(FFill(features.dollar_volume)),
     relative_volume |-> BFill(FFill(features.relative_volume)),
     garman_klass_vol |-> BFill(FFill(features.garman_klass_vol))]

\* The rows of index (row numbers) of one column.
Rows(col, index) == AsSeries([k \in 1..Len(index) |-> col[index[k]]])

\* The feature frame cut to the rows of index.
TableOfRows(columns, features, index) ==
    [kind |-> "table",
     columns |-> columns,
     index |-> index,
     col |-> [return_1d |-> Rows(features.return_1d, index),
              vol |-> Rows(features.vol, index),
              momentum_20d |-> Rows(features.momentum_20d, index),
              rsi |-> Rows(features.rsi, index),
              bb_position |-> Rows(features.bb_position, index),
              dollar_volume |-> Rows(features.dollar_volume, index),
              relative_volume |-> Rows(features.relative_volume, index),
              garman_klass_vol |-> Rows(features.garman_klass_vol, index)]]

\* Variant: dropna(how='all'), which drops a row only when every entry of
\* it is undefined.
DropNaHowAll(columns, features, n) ==
    TableOfRows(columns, features,
                SelectSeq([i \in 1..n |-> i],
                          LAMBDA i : \E k \in 1..Len(columns) :
                                         ~IsNaN(features[columns[k]][i])))

\* frame.dropna(): the rows without an undefined entry, in index order.
DropNa(columns, features, n) ==
    TableOfRows(columns, features,
                SelectSeq([i \in 1..n |-> i],
                          LAMBDA i : \A k \in 1..Len(columns) :
                                         ~IsNaN(features[columns[k]][i])))

prepare_features_for_clustering(data) ==
    LET features == FillFrame(AssignedFeatures(data))
        valid == DropNa(FeatureColumns, features, RowsOf(data))
    IN  IF Len(valid.index) < MinValidRows
        THEN Raised("ValueError", "Not enough valid data points for clustering")
        ELSE valid

(***************************************************************************)
(* A caller of the StockAnalyzer methods                                   *)
(***************************************************************************)
VARIABLES
    apc,       \* "idle", "new", "rejected", "constructed" or "returned"
    data_arg,  \* the data argument of StockAnalyzer(data)
    self_data, \* self.data of the analyzer
    method,   \* the method called
    args,     \* its arguments
    result    \* what it returned or raised

avars == <<apc, data_arg, self_data, method, args, result>>

\* An OHLCV frame without an 'Adj Close' column.
Frame(close, volume, high) ==
    [Open |-> close, High |-> high, Low |-> close, Close |-> close,
     Volume |-> volume]

NoResult == [kind |-> "none"]

\* A value handed to the constructor: a DataFrame with its columns, or a
\* value of another type.
DataFrame(columns) == [type |-> "DataFrame", columns |-> columns]
NotAFrame(type) == [type |-> type]

\* data.empty: no column or no row.
IsEmpty(columns) ==
    \/ DOMAIN columns = {}
    \/ \E c \in DOMAIN columns : Len(columns[c]) = 0

required_columns == {"Open", "High", "Low", "Close", "Volume"}

\* Variant: only the Close column asked for.
StockAnalyzerCloseOnly(data) ==
    IF data.type # "DataFrame"
    THEN Raised("TypeError", "Data must be Pandas DataFrame")
    ELSE IF IsEmpty(data.columns)
    THEN Raised("ValueError", "Data is empty")
    ELSE IF "Close" \notin DOMAIN data.columns
    THEN Raised("ValueError", "Missing required columns")
    ELSE [kind |-> "analyzer", data |-> data.columns]

\* StockAnalyzer(data): the analyzer, or the error __init__ raises.
StockAnalyzer(data) ==
    IF data.type # "DataFrame"
    THEN Raised("TypeError", "Data must be Pandas DataFrame")
    ELSE IF IsEmpty(data.columns)
    THEN Raised("ValueError", "Data is empty")
    ELSE IF required_columns \ DOMAIN data.columns # {}
    THEN Raised("ValueError", "Missing required columns")
    ELSE [kind |-> "analyzer", data |-> data.columns]

AnalyzerIdle ==
    /\ apc = "idle"
    /\ data_arg = NotAFrame("NoneType")
    /\ self_data = Frame(<<>>, <<>>, <<>>)
    /\ method = ""
    /\ args = <<>>
    /\ result = NoResult

(***************************************************************************)
(* routes/visualization.py: get_chart_data                                 *)
(***************************************************************************)
VARIABLES
    cpc,            \* position in the chart handler
    chart_type,     \* query parameter
    date_args,      \* start_date and end_date: "none", "valid", "malformed"
    start_dt,       \* first requested date (0: not parsed yet)
    chart_fetched,  \* what fetch_stock_data returned to the chart handler
    chart_status,   \* HTTP status of the answer (0: none yet)
    chart_detail,   \* detail of the HTTPException the handler raises
    chart_body      \* the body of the answer

cvars == <<cpc, chart_type, date_args, start_dt, chart_fetched, chart_status,
           chart_detail, chart_body>>

NoChart == [success |-> FALSE]

ChartIdle ==
    /\ cpc = "idle"
    /\ chart_type = ""
    /\ date_args = "none"
    /\ start_dt = 0
    /\ chart_fetched = NotAFrame("NoneType")
    /\ chart_status = 0
    /\ chart_detail = ""
    /\ chart_body = NoChart

(***************************************************************************)
(* services/predictor.py: a caller of one UnsupervisedStrategyAnalyzer and *)
(* of the StockPredictor it is registered with                             *)
(***************************************************************************)
VARIABLES
    spc,                   \* "idle", "ready" (the objects are constructed)
                           \* or "changed" (the caller changed the table)
    strategy_data,         \* self.data, the caller's table
    strategy_n,            \* self.n_clusters
    strategy_trained,      \* self.clusters is not None
    strategy_clusters,     \* self.clusters
    strategy_performance,  \* self.cluster_performance
    strategies,            \* the names of StockPredictor.strategies
    fits,                  \* the labels KMeans(random_state=42) gave a table
    data_before,           \* the table before the last call
    last_call,             \* the last method called
    last_name,             \* the strategy_name of the last StockPredictor.predict
    outcome                \* what the last call returned or raised

svars == <<spc, strategy_data, strategy_n, strategy_trained, strategy_clusters,
           strategy_performance, strategies, fits, data_before, last_call,
           last_name, outcome>>

NoFits == [t \in {} |-> <<>>]

StrategyIdle ==
    /\ spc = "idle"
    /\ strategy_data = <<>>
    /\ strategy_n = 0
    /\ strategy_trained = FALSE
    /\ strategy_clusters = <<>>
    /\ strategy_performance = [c \in {} |-> 0]
    /\ strategies = {}
    /\ fits = NoFits
    /\ data_before = <<>>
    /\ last_call = ""
    /\ last_name = ""
    /\ outcome = NoResult

(***************************************************************************)
(* State of a caller of the two metric functions on their own              *)
(***************************************************************************)
VARIABLES
    mpc,               \* position of the caller of the two metric functions
    returns,           \* the returns series
    returns_alt,       \* a second returns series over the same dates
    signal,            \* the predictions series
    strategy_out,      \* calculate_strategy_metrics(signal, returns)
    strategy_alt_out,  \* calculate_strategy_metrics(signal, returns_alt)
    baseline_out,      \* calculate_baseline_metrics(returns)
    allones_out        \* calculate_strategy_metrics(all ones, returns)

mvars == <<mpc, returns, returns_alt, signal, strategy_out, strategy_alt_out,
           baseline_out, allones_out>>

(***************************************************************************)
(* routes/prediction.py: get_stock_prediction                              *)
(***************************************************************************)
VARIABLES
    pc,                   \* position in the handler
    fetched_data,         \* what fetch_stock_data returned
    n_clusters,           \* query parameter
    min_cluster_size,     \* query parameter
    features,             \* the feature table (strategy.data is this table)
    trained,              \* strategy.clusters is not None
    clusters,             \* strategy.clusters
    cluster_performance,  \* strategy.cluster_performance
    train_calls,          \* strategy.train() calls made by this request
    predictions,          \* the signal series
    result_metrics,       \* result['metrics']
    strategy_metrics,
    baseline_metrics,
    recent_metrics,
    status,               \* HTTP status of the answer (0: none yet)
    detail,               \* detail of the HTTPException the handler raises
    response              \* the body of the answer

pvars == <<pc, fetched_data, n_clusters, min_cluster_size, features, trained, clusters,
           cluster_performance, train_calls, predictions, result_metrics,
           strategy_metrics, baseline_metrics, recent_metrics, status, detail,
           response>>

\* Query(5, ge=2, le=10) and Query(5, ge=3): the values tried.
MinRequired == 20
RecentDays == 20
ClusterParams == {<<2, 3>>, <<3, 3>>, <<3, 7>>}
\* Values outside ge=2, le=10 and ge=3.
RejectedParams == {<<1, 3>>, <<11, 3>>, <<2, 2>>}

\* Largest feature table that prepare_features_for_clustering returns here.
MaxRows == 21
\* Most rows of that table before start_date.
MaxBefore == 1

NoResponse == [success |-> FALSE]
EmptyPerformance == [c \in {} |-> 0]

\* A feature table made of three runs of equal rows.
Profile(r, rsi, vol) == [return_1d |-> r, rsi |-> rsi, vol |-> vol]

BlockOf(i, c1, c2) == IF i <= c1 THEN 1 ELSE IF i <= c1 + c2 THEN 2 ELSE 3

TableOf(n, c1, c2, profiles) ==
    [i \in 1..n |->
        LET p == profiles[BlockOf(i, c1, c2)]
        IN  [date |-> TradingDate(i), return_1d |-> p.return_1d,
             rsi |-> p.rsi, vol |-> p.vol, cluster |-> NoCluster]]

BlockReturns ==
    {<<Frac(-1, 2), Whole(1), Whole(0)>>,
     <<Frac(-1, 2), Whole(3), Frac(-1, 2)>>,
     <<Whole(1), Whole(1), Frac(-1, 2)>>,
     <<Whole(1), Frac(-1, 2), Whole(1)>>}

\* (rsi, vol) of the three runs: one run may sit on or beyond a filter bound.
BlockRisk ==
    {<<<<50, 7>>, <<50, 7>>, <<50, 7>>>>,
     <<<<50, 7>>, <<30, 7>>, <<50, 7>>>>,
     <<<<50, 7>>, <<70, 7>>, <<50, 7>>>>,
     <<<<50, 7>>, <<50, 12>>, <<50, 7>>>>,
     <<<<50, 7>>, <<50, 13>>, <<50, 7>>>>,
     <<<<29, 7>>, <<50, 7>>, <<71, 13>>>>}

Tables(n) ==
    {TableOf(n, c1, c2,
             [b \in 1..3 |-> Profile(rs[b], rv[b][1], rv[b][2])]) :
        c1 \in {1, 2}, c2 \in {3, 4}, rs \in BlockReturns, rv \in BlockRisk}

\* A table with one day on which the price rose 700-fold (a bad tick), left
\* untraded by the rsi filter.
SpikeTables(n) ==
    {TableOf(n, 1, 4,
             [b \in 1..3 |->
                 Profile(<<Whole(700), Whole(1), Whole(0)>>[b],
                         <<29, 50, 50>>[b], 7)])}

\* KMeans.fit_predict: one label in 0..n-1 per row, equal rows labelled
\* alike. With at least n distinct rows every label is used; with fewer, the
\* distinct rows get distinct labels and the other labels stay empty.
RowKey(row) == <<row.return_1d, row.rsi, row.vol>>

Labelings(data, n) ==
    LET keys == {RowKey(data[i]) : i \in 1..Len(data)}
        assignments ==
            {f \in [keys -> 0..(n - 1)] :
                IF Cardinality(keys) >= n
                THEN \A c \in 0..(n - 1) : \E k \in keys : f[k] = c
                ELSE \A k1, k2 \in keys : f[k1] = f[k2] => k1 = k2}
    IN  {[i \in 1..Len(data) |-> f[RowKey(data[i])]] : f \in assignments}

Max2(a, b) == IF a < b THEN b ELSE a

\* series[-20:]
Recent(s) == SubSeq(s, Max2(1, Len(s) - RecentDays + 1), Len(s))

ReturnsOf(data) ==
    [i \in 1..Len(data) |-> [date |-> data[i].date, val |-> data[i].return_1d]]

\* a > b for two floats of the form sgn * sqrt(sq).
SurdGt(a, b) ==
    IF a.sgn # b.sgn THEN a.sgn > b.sgn
    ELSE IF a.sgn = 1 THEN FLt(b.sq, a.sq)
    ELSE IF a.sgn = -1 THEN FLt(a.sq, b.sq)
    ELSE FALSE

\* clean_nan on one float.
clean_nan(v) == IF v.kind = "nan" THEN RatVal(Whole(0)) ELSE v

\* clean_nan on a dict of metrics: its floats cleaned, its ints and strs
\* kept.
FloatKeys ==
    {"sharpe_ratio", "annual_return", "win_rate", "max_drawdown", "accuracy"}

clean_nan_dict(obj) ==
    [k \in DOMAIN obj |-> IF k \in FloatKeys THEN clean_nan(obj[k]) ELSE obj[k]]

ResponseClusters(performance) ==
    [c \in DOMAIN performance |->
        [mean_return |-> clean_nan(RatVal(performance[c].mean_return)),
         sharpe |-> clean_nan(performance[c].sharpe),
         size |-> performance[c].size]]

BuildResponse ==
    [success |-> TRUE,
     trading_days |-> Len(features),
     signal |-> IF predictions[Len(predictions)].val = 1 THEN "BUY" ELSE "HOLD/SELL",
     confidence |-> IF FLt(Frac(1, 2), strategy_metrics.win_rate.rat)
                    THEN "High" ELSE "Low",
     metrics |-> clean_nan_dict(strategy_metrics),
     buy_hold_metrics |-> clean_nan_dict(baseline_metrics),
     strategy_vs_baseline |->
         IF SurdGt(strategy_metrics.sharpe_ratio, baseline_metrics.sharpe_ratio)
         THEN "Better" ELSE "Worse",
     recent_metrics |-> clean_nan_dict(recent_metrics),
     clusters |-> ResponseClusters(result_metrics.cluster_performance)]

PipelineIdle ==
    /\ pc = "idle"
    /\ fetched_data = "unset"
    /\ n_clusters = 0
    /\ min_cluster_size = 0
    /\ features = <<>>
    /\ trained = FALSE
    /\ clusters = <<>>
    /\ cluster_performance = EmptyPerformance
    /\ train_calls = 0
    /\ predictions = <<>>
    /\ result_metrics = [cluster_performance |-> EmptyPerformance]
    /\ strategy_metrics = [total_trades |-> -1]
    /\ baseline_metrics = [total_trades |-> -1]
    /\ recent_metrics = [total_trades |-> -1]
    /\ status = 0
    /\ detail = ""
    /\ response = NoResponse

\* The request ends with an error answer.
Fail(code, message) ==
    /\ pc' = "failed"
    /\ status' = code
    /\ detail' = message
    /\ response' = NoResponse

HTTPException(status_code, message) ==
    [type |-> "HTTPException", status_code |-> status_code, detail |-> message]
Exception(type, message) == [type |-> type, detail |-> message]

\* Variant: every exception answered with 500.
CaughtAlways500(e) == Fail(500, e.detail)

\* except Exception as e: an HTTPException is raised again as it is, any
\* other exception becomes HTTPException(500, str(e)).
Caught(e) ==
    IF e.type = "HTTPException"
    THEN Fail(e.status_code, e.detail)
    ELSE Fail(500, e.detail)

\* n_clusters: Query(5, ge=2, le=10), min_cluster_size: Query(5, ge=3): the
\* framework answers 422 before the handler runs.
ValidateQuery ==
    /\ pc = "received"
    /\ IF n_clusters >= 2 /\ n_clusters <= 10 /\ min_cluster_size >= 3
       THEN pc' = "request" /\ UNCHANGED <<status, detail, response>>
       ELSE Fail(422, "Unprocessable Entity")
    /\ UNCHANGED <<fetched_data, n_clusters, min_cluster_size, features, trained,
                   clusters, cluster_performance, train_calls, predictions,
                   result_metrics, strategy_metrics, baseline_metrics,
                   recent_metrics>>
    /\ UNCHANGED <<mvars, avars, cvars, svars>>

\* data = fetch_stock_data(...); 404 when it is None or empty.
Fetch ==
    /\ pc = "request"
    /\ \E data \in {"None", "empty", "frame"} :
           /\ fetched_data' = data
           /\ IF data = "frame"
              THEN pc' = "fetched" /\ UNCHANGED <<status, detail, response>>
              ELSE Caught(HTTPException(404, "No data found"))
    /\ UNCHANGED <<n_clusters, min_cluster_size, features, trained, clusters,
                   cluster_performance, train_calls, predictions, result_metrics,
                   strategy_metrics, baseline_metrics, recent_metrics>>
    /\ UNCHANGED <<mvars, avars, cvars, svars>>

\* Variant: 20 rows whatever the parameters.
MinimumRowsFixed(n, m) == MinRequired

\* max(20, n_clusters * min_cluster_size)
MinimumRows(n, m) == Max2(MinRequired, n * m)

\* features = analyzer.prepare_features_for_clustering(), which raises when
\* it has fewer than 20 rows without an undefined entry;
\* features = features.loc[start_dt:end_dt]; 400 when too few rows are left.
PrepareFeatures ==
    /\ pc = "fetched"
    /\ \E n_full \in (MinRequired - 1)..MaxRows, before \in 0..MaxBefore :
           IF n_full < MinRequired
           THEN Caught(Exception("ValueError",
                            "Not enough valid data points for clustering"))
                /\ UNCHANGED features
           ELSE \E table \in Tables(n_full - before) \cup SpikeTables(n_full - before) :
                    /\ features' = table
                    /\ IF Len(table) < MinimumRows(n_clusters, min_cluster_size)
                       THEN Caught(HTTPException(400, "Insufficient data points"))
                       ELSE pc' = "features_built" /\ UNCHANGED <<status, detail, response>>
    /\ UNCHANGED <<fetched_data, n_clusters, min_cluster_size, trained, clusters,
                   cluster_performance, train_calls, predictions, result_metrics,
                   strategy_metrics, baseline_metrics, recent_metrics>>
    /\ UNCHANGED <<mvars, avars, cvars, svars>>

\* strategy = UnsupervisedStrategyAnalyzer(features, n_clusters); strategy.train()
Train ==
    /\ pc = "features_built"
    /\ \E labels \in Labelings(features, n_clusters) :
           /\ clusters' = labels
           /\ features' = WithClusters(features, labels)
           /\ cluster_performance' =
                  TrainedPerformance(WithClusters(features, labels), n_clusters,
                                     cluster_performance)
    /\ trained' = TRUE
    /\ train_calls' = train_calls + 1
    /\ pc' = "trained"
    /\ UNCHANGED <<fetched_data, n_clusters, min_cluster_size, predictions, result_metrics,
                   strategy_metrics, baseline_metrics, recent_metrics, status,
                   detail, response>>
    /\ UNCHANGED <<mvars, avars, cvars, svars>>

\* result = predictor.predict("unsupervised"): strategy.predict() and
\* strategy.evaluate(), each raising ValueError before training.
PredictSignal ==
    /\ pc = "trained"
    /\ IF trained
       THEN /\ predictions' = Predict(features, cluster_performance)
            /\ result_metrics' = Evaluate(clusters, n_clusters, cluster_performance)
            /\ pc' = "predicted"
            /\ UNCHANGED <<status, detail, response>>
       ELSE Caught(Exception("ValueError", "Model needs to be trained first"))
            /\ UNCHANGED <<predictions, result_metrics>>
    /\ UNCHANGED <<fetched_data, n_clusters, min_cluster_size, features, trained, clusters,
                   cluster_performance, train_calls, strategy_metrics,
                   baseline_metrics, recent_metrics>>
    /\ UNCHANGED <<mvars, avars, cvars, svars>>

CalculateMetrics ==
    /\ pc = "predicted"
    /\ strategy_metrics' = calculate_strategy_metrics(predictions, ReturnsOf(features))
    /\ baseline_metrics' = calculate_baseline_metrics(ReturnsOf(features))
    /\ recent_metrics' =
           calculate_strategy_metrics(Recent(predictions), Recent(ReturnsOf(features)))
    /\ pc' = "evaluated"
    /\ UNCHANGED <<fetched_data, n_clusters, min_cluster_size, features, trained, clusters,
                   cluster_performance, train_calls, predictions, result_metrics,
                   status, detail, response>>
    /\ UNCHANGED <<mvars, avars, cvars, svars>>

\* The response dict and clean_nan; strategy_metrics["win_rate"] > 0.5 raises
\* TypeError when win_rate is the str "None", which the except clause
\* answers with 500.
Respond ==
    /\ pc = "evaluated"
    /\ IF strategy_metrics.win_rate.kind = "str"
       THEN Caught(Exception("TypeError",
                            "'>' not supported between instances of 'str' and 'float'"))
       ELSE /\ response' = BuildResponse
            /\ status' = 200
            /\ UNCHANGED detail
            /\ pc' = "responded"
    /\ UNCHANGED <<fetched_data, n_clusters, min_cluster_size, features, trained, clusters,
                   cluster_performance, train_calls, predictions, result_metrics,
                   strategy_metrics, baseline_metrics, recent_metrics>>
    /\ UNCHANGED <<mvars, avars, cvars, svars>>

(***************************************************************************)
(* The metric functions called on their own                                *)
(***************************************************************************)
\* Longest series handed to the metric functions on their own.
MaxLen == 3

\* Daily returns (pct_change of a positive price is > -1).
ReturnValues == {Frac(-1, 2), Whole(0), Whole(1)}

SeriesOf(xs) == [i \in 1..Len(xs) |-> [date |-> TradingDate(i), val |-> xs[i]]]

NoMetrics == [total_trades |-> -1]

MetricsIdle ==
    /\ mpc = "idle"
    /\ returns = <<>>
    /\ returns_alt = <<>>
    /\ signal = <<>>
    /\ strategy_out = NoMetrics
    /\ strategy_alt_out = NoMetrics
    /\ baseline_out = NoMetrics
    /\ allones_out = NoMetrics

\* The arguments: a returns series, a 0/1 signal on the same dates, and a
\* second returns series that differs from the first on at most one date.
MetricsArgs ==
    \E n \in 0..MaxLen :
        \E xs \in Tuples(n, ReturnValues), ps \in Tuples(n, {0, 1}) :
            \E j \in 0..n, v \in ReturnValues :
                /\ returns = SeriesOf(xs)
                /\ signal = SeriesOf(ps)
                /\ returns_alt =
                       SeriesOf([i \in 1..n |-> IF i = j THEN v ELSE xs[i]])

CallStrategyMetrics ==
    /\ mpc = "args"
    /\ strategy_out' = calculate_strategy_metrics(signal, returns)
    /\ strategy_alt_out' = calculate_strategy_metrics(signal, returns_alt)
    /\ mpc' = "strategy"
    /\ UNCHANGED <<returns, returns_alt, signal, baseline_out, allones_out>>
    /\ UNCHANGED <<pvars, avars, cvars, svars>>

CallBaselineMetrics ==
    /\ mpc = "strategy"
    /\ baseline_out' = calculate_baseline_metrics(returns)
    /\ mpc' = "baseline"
    /\ UNCHANGED <<returns, returns_alt, signal, strategy_out, strategy_alt_out,
                   allones_out>>
    /\ UNCHANGED <<pvars, avars, cvars, svars>>

AllOnes(s) == [i \in 1..Len(s) |-> [date |-> s[i].date, val |-> 1]]

CallStrategyMetricsAllOnes ==
    /\ mpc = "baseline"
    /\ allones_out' = calculate_strategy_metrics(AllOnes(returns), returns)
    /\ mpc' = "done"
    /\ UNCHANGED <<returns, returns_alt, signal, strategy_out, strategy_alt_out,
                   baseline_out>>
    /\ UNCHANGED <<pvars, avars, cvars, svars>>

MetricsInit ==
    /\ PipelineIdle
    /\ AnalyzerIdle
    /\ ChartIdle
    /\ StrategyIdle
    /\ mpc = "args"
    /\ MetricsArgs
    /\ strategy_out = NoMetrics
    /\ strategy_alt_out = NoMetrics
    /\ baseline_out = NoMetrics
    /\ allones_out = NoMetrics

MetricsNext ==
    \/ CallStrategyMetrics
    \/ CallBaselineMetrics
    \/ CallStrategyMetricsAllOnes

(***************************************************************************)
(* The analyzer calls: a frame, then one method call on it                 *)
(***************************************************************************)
\* Longest frame with free prices or volumes, and longest frame at all.
MaxShortLen == 4
MaxLongRows == 253

Nums1(xs) == [i \in 1..Len(xs) |-> Num(xs[i])]

ShortFrames ==
    UNION {
        {Frame(Nums1(cs), [i \in 1..n |-> Num(2)], Nums1(cs)) :
             cs \in Tuples(n, {1, 2, 3})}
        \cup {Frame([i \in 1..n |-> Num(2)], vs, [i \in 1..n |-> Num(2)]) :
                  vs \in Tuples(n, {Num(0), Num(2), NaN})} :
        n \in 1..MaxShortLen}

\* Close prices of a long frame: flat, moving, or flat at one end only.
Cycle(i) == CASE i % 3 = 1 -> 2 [] i % 3 = 2 -> 4 [] OTHER -> 8
FlatRun == 40

ClosePattern(name, n) ==
    [i \in 1..n |->
        Num(CASE name = "flat" -> 2
              [] name = "cycle" -> Cycle(i)
              [] name = "late" -> IF i <= FlatRun THEN 2 ELSE Cycle(i)
              [] name = "early" -> IF i > n - FlatRun THEN 2 ELSE Cycle(i))]

VolumePattern(name, n) ==
    [i \in 1..n |->
        CASE name = "steady" -> Num(3)
          [] name = "none" -> Num(0)
          [] name = "gaps" -> IF i \in {1, 30} THEN NaN ELSE Num((i % 3) + 1)]

HighPattern(name, close) ==
    [i \in 1..Len(close) |->
        IF name = "gaps" /\ i \in {1, 2, 50} THEN NaN
        ELSE FlAdd(close[i], Num(1))]

LongLens ==
    {MinValidRows - 1, MinValidRows, VolatilityWindow, MaxLongRows}

\* Volume and High patterns tried together.
VolumeHighPatterns ==
    {<<"steady", "full">>, <<"none", "full">>, <<"gaps", "gaps">>}

LongFrames ==
    {Frame(ClosePattern(c, n), VolumePattern(vh[1], n),
           HighPattern(vh[2], ClosePattern(c, n))) :
        n \in LongLens, c \in {"flat", "cycle", "late", "early"},
        vh \in VolumeHighPatterns}

\* Inputs the constructor refuses: values that are no DataFrame, frames
\* without rows or without columns, frames lacking required columns.
Without(columns, names) == [c \in DOMAIN columns \ names |-> columns[c]]

SmallFrame == Frame(<<Num(1), Num(2)>>, <<Num(2), Num(2)>>, <<Num(2), Num(3)>>)

BadInputs ==
    {NotAFrame(t) : t \in {"NoneType", "list", "dict"}}
    \cup {DataFrame(Frame(<<>>, <<>>, <<>>)),
          DataFrame(Without(SmallFrame, required_columns)),
          DataFrame(Without(Frame(<<>>, <<>>, <<>>), {"Volume"}))}
    \cup {DataFrame(Without(SmallFrame, names)) :
              names \in {{"Open"}, {"High"}, {"Low"}, {"Close"}, {"Volume"},
                         {"Open", "Volume"}, {"High", "Low", "Close"}}}

\* analyzer = StockAnalyzer(data)
Construct ==
    /\ apc = "new"
    /\ LET analyzer == StockAnalyzer(data_arg)
       IN  IF analyzer.kind = "raised"
           THEN /\ apc' = "rejected"
                /\ result' = analyzer
                /\ UNCHANGED self_data
           ELSE /\ apc' = "constructed"
                /\ self_data' = analyzer.data
                /\ UNCHANGED result
    /\ UNCHANGED <<data_arg, method, args>>
    /\ UNCHANGED <<pvars, mvars, cvars, svars>>

\* A frame well past the one-year window of the volatility.
ScenarioRows == 300

ScenarioFrames ==
    {Frame(ClosePattern("cycle", ScenarioRows),
           VolumePattern("steady", ScenarioRows),
           HighPattern("full", ClosePattern("cycle", ScenarioRows)))}

Returns(name, arguments, value) ==
    /\ apc = "constructed"
    /\ method' = name
    /\ args' = arguments
    /\ result' = value
    /\ apc' = "returned"
    /\ UNCHANGED <<data_arg, self_data>>

Windows(default) == {2, 3, default}
NumStds == {Whole(-1), Whole(BollingerNumStd)}

CallRsi ==
    /\ \E window \in Windows(RsiWindow) :
           Returns("calculate_rsi", <<window>>, calculate_rsi(self_data, window))
    /\ UNCHANGED <<pvars, mvars, cvars, svars>>

CallBollingerBands ==
    /\ \E window \in Windows(BollingerWindow), num_std \in NumStds :
           Returns("calculate_bollinger_bands", <<window, num_std>>,
                   calculate_bollinger_bands(self_data, window, num_std))
    /\ UNCHANGED <<pvars, mvars, cvars, svars>>

CallRelativeVolume ==
    /\ \E window \in Windows(RelativeVolumeWindow) :
           Returns("calculate_relative_volume", <<window>>,
                   calculate_relative_volume(self_data, window))
    /\ UNCHANGED <<pvars, mvars, cvars, svars>>

CallMomentum ==
    /\ Returns("calculate_momentum", <<MomentumPeriods>>,
               calculate_momentum(self_data, MomentumPeriods))
    /\ UNCHANGED <<pvars, mvars, cvars, svars>>

CallPrepareFeatures ==
    /\ Returns("prepare_features_for_clustering", <<>>,
               prepare_features_for_clustering(self_data))
    /\ UNCHANGED <<pvars, mvars, cvars, svars>>

AnalyzerInit ==
    /\ PipelineIdle
    /\ MetricsIdle
    /\ ChartIdle
    /\ StrategyIdle
    /\ apc = "new"
    /\ data_arg \in {DataFrame(f) :
                        f \in ShortFrames \cup LongFrames \cup ScenarioFrames}
                   \cup BadInputs
    /\ self_data = Frame(<<>>, <<>>, <<>>)
    /\ method = ""
    /\ args = <<>>
    /\ result = NoResult

AnalyzerNext ==
    \/ Construct
    \/ CallRsi
    \/ CallBollingerBands
    \/ CallRelativeVolume
    \/ CallMomentum
    \/ CallPrepareFeatures

(***************************************************************************)
(* services/visualizer.py: StockVisualizer, and the chart route            *)
(***************************************************************************)
\* The methods the class StockVisualizer defines.
StockVisualizerMethods ==
    {"__init__", "_format_volume", "plot_candlestick", "prepare_chart_data",
     "_get_empty_data_structure", "plot_technical_analysis",
     "_prepare_technical_data", "plot_clustering_analysis",
     "generate_performance_dashboard"}

get_empty_data_structure ==
    [dates |-> <<>>, ohlc |-> <<>>, volume |-> <<>>,
     indicators |->
         [rsi |-> [values |-> <<>>],
          sma |-> [sma20 |-> <<>>, sma50 |-> <<>>],
          bollinger |-> [upper |-> <<>>, middle |-> <<>>, lower |-> <<>>]]]

calculate_sma(data, window) == RollingMean(data.Close, window)

\* prepare_chart_data(): dates, OHLC rows, volume and the indicators over
\* every row of analyzer.data, undefined values as 0.
prepare_chart_data(data) ==
    IF IsEmpty(data) \/ required_columns \ DOMAIN data # {}
    THEN get_empty_data_structure
    ELSE LET n == RowsOf(data)
             bb == calculate_bollinger_bands(data, BollingerWindow,
                                             Whole(BollingerNumStd))
         IN  [dates |-> [i \in 1..n |-> TradingDate(i)],
              ohlc |-> [i \in 1..n |->
                           <<data.Open[i], data.High[i], data.Low[i],
                             data.Close[i]>>],
              volume |-> FillNa(data.Volume, Num(0)),
              indicators |->
                  [rsi |-> [values |->
                               FillNa(calculate_rsi(data, RsiWindow), Num(0))],
                   sma |-> [sma20 |-> FillNa(calculate_sma(data, 20), Num(0)),
                            sma50 |-> FillNa(calculate_sma(data, 50), Num(0))],
                   bollinger |->
                       [upper |-> FillNa(bb["BB_Upper"], Num(0)),
                        middle |-> FillNa(bb["BB_Middle"], Num(0)),
                        lower |-> FillNa(bb["BB_Lower"], Num(0))]]]

\* getattr(visualizer, name)(indicators): the chart data, or the
\* AttributeError of a name the class does not define.
CallVisualizer(name, data) ==
    IF name \notin StockVisualizerMethods
    THEN Raised("AttributeError",
                "'StockVisualizer' object has no attribute")
    ELSE IF name \in {"prepare_chart_data", "_prepare_technical_data"}
    THEN prepare_chart_data(data)
    ELSE get_empty_data_structure

\* The method the route calls for a chart type.
ChartMethod(type) ==
    IF type = "technical"
    THEN "prepare_technical_data"
    ELSE "prepare_candlestick_data"

\* [d for i, d in enumerate(xs) if requested_mask[i]]; the fetched rows end
\* at end_dt, so the mask keeps the rows from start on.
RECURSIVE RequestedRows(_, _, _)
RequestedRows(xs, dates, start) ==
    IF Len(xs) = 0 THEN <<>>
    ELSE IF Head(dates) >= start
    THEN <<Head(xs)>> \o RequestedRows(Tail(xs), Tail(dates), start)
    ELSE RequestedRows(Tail(xs), Tail(dates), start)

SliceChart(chart_data, start) ==
    LET dates == chart_data.dates
        Cut(xs) == RequestedRows(xs, dates, start)
        ind == chart_data.indicators
    IN  [dates |-> Cut(dates),
         ohlc |-> Cut(chart_data.ohlc),
         volume |-> Cut(chart_data.volume),
         indicators |->
             [rsi |-> [values |-> Cut(ind.rsi.values)],
              sma |-> [sma20 |-> Cut(ind.sma.sma20),
                       sma50 |-> Cut(ind.sma.sma50)],
              bollinger |-> [upper |-> Cut(ind.bollinger.upper),
                             middle |-> Cut(ind.bollinger.middle),
                             lower |-> Cut(ind.bollinger.lower)]]]

ChartFail(code, message) ==
    /\ cpc' = "failed"
    /\ chart_status' = code
    /\ chart_detail' = message
    /\ chart_body' = NoChart

\* except ValueError: 400; except Exception: 500, an HTTPException the
\* handler raised itself included.
ChartCaught(e) ==
    IF e.type = "ValueError"
    THEN ChartFail(400, e.detail)
    ELSE ChartFail(500, e.detail)

\* Lines 29-40: pd.to_datetime of the two date parameters.
ParseDates ==
    /\ cpc = "request"
    /\ IF date_args = "malformed"
       THEN /\ ChartCaught(Exception("ValueError", "Unknown datetime string"))
            /\ UNCHANGED start_dt
       ELSE /\ cpc' = "dates"
            /\ \E start \in {1, 3} : start_dt' = start
            /\ UNCHANGED <<chart_status, chart_detail, chart_body>>
    /\ UNCHANGED <<chart_type, date_args, chart_fetched>>
    /\ UNCHANGED <<pvars, mvars, avars, svars>>

\* What fetch_stock_data hands to the chart handler.
ChartInputs ==
    {NotAFrame("NoneType"), DataFrame(Frame(<<>>, <<>>, <<>>)),
     DataFrame(Without(SmallFrame, {"Volume"}))}
    \cup {DataFrame(f) : f \in ShortFrames}

\* Lines 41-43.
FetchChart ==
    /\ cpc = "dates"
    /\ \E data \in ChartInputs :
           /\ chart_fetched' = data
           /\ IF data.type = "NoneType"
              THEN ChartCaught(HTTPException(404, "No data found"))
              ELSE /\ cpc' = "fetched"
                   /\ UNCHANGED <<chart_status, chart_detail, chart_body>>
    /\ UNCHANGED <<chart_type, date_args, start_dt>>
    /\ UNCHANGED <<pvars, mvars, avars, svars>>

\* Lines 46-79: analyzer, visualizer, chart data, slice, answer.
PrepareChart ==
    /\ cpc = "fetched"
    /\ LET analyzer == StockAnalyzer(chart_fetched)
       IN  IF analyzer.kind = "raised"
           THEN ChartCaught(Exception(analyzer.error, analyzer.message))
           ELSE LET chart_data ==
                        CallVisualizer(ChartMethod(chart_type), analyzer.data)
                IN  IF "kind" \in DOMAIN chart_data
                    THEN ChartCaught(Exception(chart_data.error,
                                               chart_data.message))
                    ELSE /\ cpc' = "responded"
                         /\ chart_status' = 200
                         /\ chart_body' =
                                [success |-> TRUE,
                                 data |-> SliceChart(chart_data, start_dt)]
                         /\ UNCHANGED chart_detail
    /\ UNCHANGED <<chart_type, date_args, start_dt, chart_fetched>>
    /\ UNCHANGED <<pvars, mvars, avars, svars>>

ChartInit ==
    /\ PipelineIdle
    /\ MetricsIdle
    /\ AnalyzerIdle
    /\ StrategyIdle
    /\ cpc = "request"
    /\ chart_type \in {"candlestick", "technical", "line"}
    /\ date_args \in {"none", "valid", "malformed"}
    /\ start_dt = 0
    /\ chart_fetched = NotAFrame("NoneType")
    /\ chart_status = 0
    /\ chart_detail = ""
    /\ chart_body = NoChart

ChartNext ==
    \/ ParseDates
    \/ FetchChart
    \/ PrepareChart

(***************************************************************************)
(* services/predictor.py: calls on one strategy and its StockPredictor     *)
(***************************************************************************)
\* Rows of the tables handed to a strategy on its own.
StrategyRows == 7

StrategyBlockReturns == BlockReturns \cup {<<Whole(1), Whole(1), Whole(1)>>}

StrategyTables(n) ==
    {TableOf(n, c1, c2, [b \in 1..3 |-> Profile(rs[b], 50, 7)]) :
        c1 \in {1}, c2 \in {4}, rs \in StrategyBlockReturns}

StrategyLens == {1, StrategyRows}

NotTrained == Raised("ValueError", "Model needs to be trained first")

Returned(value) == [kind |-> "returned", value |-> value]

\* Variant: no check of self.clusters.
strategy_predict_unchecked(is_trained, data, performance) ==
    Returned(Predict(data, performance))

\* predict()
strategy_predict(is_trained, data, performance) ==
    IF ~is_trained THEN NotTrained ELSE Returned(Predict(data, performance))

\* evaluate()
strategy_evaluate(is_trained, labels, n, performance) ==
    IF ~is_trained
    THEN NotTrained
    ELSE Returned(Evaluate(labels, n, performance))

\* StockPredictor.predict(strategy_name), every registered name holding the
\* one strategy.
predictor_predict(names, name, is_trained, data, labels, n, performance) ==
    IF name \notin names
    THEN Raised("ValueError", "Strategy not found")
    ELSE LET p == strategy_predict(is_trained, data, performance)
             m == strategy_evaluate(is_trained, labels, n, performance)
         IN  IF p.kind = "raised" THEN p
             ELSE IF m.kind = "raised" THEN m
             ELSE Returned([predictions |-> p.value, metrics |-> m.value])

\* The feature rows of a table, without its cluster column.
FeatureRows(data) == [i \in 1..Len(data) |-> RowKey(data[i])]

\* self.model.fit_predict(scaled_features): the generator is seeded, so a
\* table fitted before gets the labels it got then.
FitPredict(data, n, known) ==
    IF FeatureRows(data) \in DOMAIN known
    THEN {known[FeatureRows(data)]}
    ELSE Labelings(data, n)

Called(name, value) ==
    /\ spc \in {"ready", "changed"}
    /\ last_call' = name
    /\ outcome' = value
    /\ data_before' = strategy_data

\* strategy.train(); KMeans refuses fewer rows than clusters.
CallTrain ==
    /\ IF Len(strategy_data) < strategy_n
       THEN /\ Called("train", Raised("ValueError",
                                      "n_samples should be >= n_clusters"))
            /\ UNCHANGED <<strategy_data, strategy_trained, strategy_clusters,
                           strategy_performance, fits>>
       ELSE \E labels \in FitPredict(strategy_data, strategy_n, fits) :
                /\ Called("train", Returned("None"))
                /\ strategy_clusters' = labels
                /\ strategy_trained' = TRUE
                /\ strategy_data' = WithClusters(strategy_data, labels)
                /\ strategy_performance' =
                       TrainedPerformance(WithClusters(strategy_data, labels),
                                          strategy_n, strategy_performance)
                /\ fits' = (FeatureRows(strategy_data) :> labels) @@ fits
    /\ UNCHANGED <<spc, strategy_n, strategies, last_name>>
    /\ UNCHANGED <<pvars, mvars, avars, cvars>>

\* strategy.predict()
CallPredict ==
    /\ Called("predict",
              strategy_predict(strategy_trained, strategy_data,
                               strategy_performance))
    /\ UNCHANGED <<spc, strategy_data, strategy_n, strategy_trained,
                   strategy_clusters, strategy_performance, strategies, fits,
                   last_name>>
    /\ UNCHANGED <<pvars, mvars, avars, cvars>>

\* strategy.evaluate()
CallEvaluate ==
    /\ Called("evaluate",
              strategy_evaluate(strategy_trained, strategy_clusters,
                                strategy_n, strategy_performance))
    /\ UNCHANGED <<spc, strategy_data, strategy_n, strategy_trained,
                   strategy_clusters, strategy_performance, strategies, fits,
                   last_name>>
    /\ UNCHANGED <<pvars, mvars, avars, cvars>>

\* predictor.add_strategy("unsupervised", strategy)
AddStrategy ==
    /\ "unsupervised" \notin strategies
    /\ Called("add_strategy", Returned("None"))
    /\ strategies' = strategies \cup {"unsupervised"}
    /\ UNCHANGED <<spc, strategy_data, strategy_n, strategy_trained,
                   strategy_clusters, strategy_performance, fits, last_name>>
    /\ UNCHANGED <<pvars, mvars, avars, cvars>>

\* predictor.predict(strategy_name)
CallPredictorPredict ==
    /\ \E strategy_name \in {"unsupervised", "supervised"} :
           /\ last_name' = strategy_name
           /\ Called("StockPredictor.predict",
                     predictor_predict(strategies, strategy_name,
                                       strategy_trained, strategy_data,
                                       strategy_clusters, strategy_n,
                                       strategy_performance))
    /\ UNCHANGED <<spc, strategy_data, strategy_n, strategy_trained,
                   strategy_clusters, strategy_performance, strategies, fits>>
    /\ UNCHANGED <<pvars, mvars, avars, cvars>>

\* self.data is the caller's table, not a copy of it: the caller writes new
\* feature values into its rows; the cluster column stays as it is.
ChangeData ==
    /\ spc = "ready"
    /\ spc' = "changed"
    /\ \E table \in StrategyTables(Len(strategy_data)) :
           /\ FeatureRows(table) # FeatureRows(strategy_data)
           /\ strategy_data' =
                  [i \in 1..Len(table) |->
                      [table[i] EXCEPT !.cluster = strategy_data[i].cluster]]
    /\ last_call' = "change"
    /\ outcome' = Returned("None")
    /\ data_before' = strategy_data
    /\ UNCHANGED <<strategy_n, strategy_trained, strategy_clusters,
                   strategy_performance, strategies, fits, last_name>>
    /\ UNCHANGED <<pvars, mvars, avars, cvars>>

\* strategy = UnsupervisedStrategyAnalyzer(features, n_clusters);
\* predictor = StockPredictor(analyzer)
StrategyInit ==
    /\ PipelineIdle
    /\ MetricsIdle
    /\ AnalyzerIdle
    /\ ChartIdle
    /\ spc = "ready"
    /\ strategy_data \in UNION {StrategyTables(n) : n \in StrategyLens}
    /\ strategy_n \in {2, 3}
    /\ strategy_trained = FALSE
    /\ strategy_clusters = <<>>
    /\ strategy_performance = [c \in {} |-> 0]
    /\ strategies = {}
    /\ fits = NoFits
    /\ data_before = <<>>
    /\ last_call = ""
    /\ last_name = ""
    /\ outcome = NoResult

StrategyNext ==
    \/ CallTrain
    \/ CallPredict
    \/ CallEvaluate
    \/ AddStrategy
    \/ CallPredictorPredict
    \/ ChangeData

vars == <<pvars, mvars, avars, cvars, svars>>

SpecMetrics == MetricsInit /\ [][MetricsNext]_vars

SpecAnalyzer == AnalyzerInit /\ [][AnalyzerNext]_vars

SpecChart == ChartInit /\ [][ChartNext]_vars

SpecStrategy == StrategyInit /\ [][StrategyNext]_vars

Init ==
    /\ MetricsIdle
    /\ AnalyzerIdle
    /\ ChartIdle
    /\ StrategyIdle
    /\ pc = "received"
    /\ fetched_data = "unset"
    /\ \E p \in ClusterParams \cup RejectedParams :
           n_clusters = p[1] /\ min_cluster_size = p[2]
    /\ features = <<>>
    /\ trained = FALSE
    /\ clusters = <<>>
    /\ cluster_performance = EmptyPerformance
    /\ train_calls = 0
    /\ predictions = <<>>
    /\ result_metrics = [cluster_performance |-> EmptyPerformance]
    /\ strategy_metrics = [total_trades |-> -1]
    /\ baseline_metrics = [total_trades |-> -1]
    /\ recent_metrics = [total_trades |-> -1]
    /\ status = 0
    /\ detail = ""
    /\ response = NoResponse

Next ==
    \/ ValidateQuery
    \/ Fetch
    \/ PrepareFeatures
    \/ Train
    \/ PredictSignal
    \/ CalculateMetrics
    \/ Respond

Spec == Init /\ [][Next]_vars

(***************************************************************************)
(* Claims about the prediction request (checked under Spec)                *)
(***************************************************************************)
\* predict() has returned: the strategy is trained and the handler is past
\* predictor.predict("unsupervised").
PredictReturned == trained /\ pc # "trained"

RowsOfCluster(c) == {i \in 1..Len(features) : features[i].cluster = c}

\* The cluster of label c is good: size >= 5, sharpe > 0.2, mean_return > 0
\* and win_rate > 0.45, over the return_1d of its rows (sharpe is mean / std,
\* and 0 when std is 0).
IsGoodCluster(c) ==
    LET xs == ClusterReturns(features, c)
        wins == Cardinality({i \in RowsOfCluster(c) : features[i].return_1d.num > 0})
    IN  /\ Len(xs) >= 5
        /\ FLt(Whole(0), Mean(xs))
        /\ Variance(xs).num # 0
        /\ FLt(FMul(Frac(1, 25), Variance(xs)), FMul(Mean(xs), Mean(xs)))
        /\ 100 * wins > 45 * Len(xs)

\* vol <= 1.5 * mean(vol over all rows), as 2 * n * vol <= 3 * sum(vol).
VolWithinBound(i) ==
    2 * Len(features) * features[i].vol
        <= 3 * SumTo(Column(features, "vol"), Len(features))

\* C1: for every date of the feature table, predict() returns 1 if and only
\* if the date's cluster is good (size >= 5, sharpe > 0.2, mean_return > 0,
\* win_rate > 0.45) and 30 < rsi < 70 and vol <= 1.5 x the mean vol of the
\* whole table; every other date gets 0.
C1_SignalIffGoodClusterAndFilters ==
    PredictReturned =>
        \A i \in 1..Len(features) :
            predictions[i].val =
                IF /\ IsGoodCluster(features[i].cluster)
                   /\ 30 < features[i].rsi
                   /\ features[i].rsi < 70
                   /\ VolWithinBound(i)
                THEN 1 ELSE 0

\* A good cluster of exactly 5 rows, a traded row, and rows of a good
\* cluster held back by the rsi bound 30 and by the vol filter.
C1_Witness ==
    /\ pc = "predicted"
    /\ \E c \in 0..(n_clusters - 1) :
           IsGoodCluster(c) /\ Cardinality(RowsOfCluster(c)) = 5
    /\ \E i, j \in 1..Len(features) :
           /\ predictions[i].val = 1
           /\ predictions[j].val = 0
           /\ IsGoodCluster(features[j].cluster)
           /\ features[j].rsi = 30

\* C2: after a successful train(), the series predict() returns has exactly
\* one entry per feature row, on the same dates in the same order, and every
\* entry is 0 or 1.
C2_SignalAlignedWithFeatures ==
    PredictReturned =>
        /\ Len(predictions) = Len(features)
        /\ \A i \in 1..Len(predictions) :
               /\ predictions[i].date = features[i].date
               /\ predictions[i].val \in {0, 1}

C2_Witness ==
    /\ pc = "predicted"
    /\ Len(predictions) >= MinRequired
    /\ \E i, j \in 1..Len(predictions) :
           predictions[i].val = 1 /\ predictions[j].val = 0

ClusterSize(c) == Cardinality(RowsOfCluster(c))

\* Every one of the n_clusters clusters has at least min_cluster_size rows.
ValidClustering ==
    \A c \in 0..(n_clusters - 1) : ClusterSize(c) >= min_cluster_size

\* C3: a clustering whose result produces the signal and the response is
\* valid: no response is built from a partition with a cluster smaller than
\* min_cluster_size.
C3_ResponseOnlyFromValidClustering ==
    pc = "responded" => ValidClustering

NoValidClusteringDetail == "No valid clustering"

\* C4: when no clustering attempt of the request is valid, the request fails
\* with a no-valid-clustering error and returns no signal and no metrics.
C4_NoValidClusteringFails ==
    (pc \in {"responded", "failed"} /\ train_calls >= 1 /\ ~ValidClustering) =>
        /\ pc = "failed"
        /\ detail = NoValidClusteringDetail
        /\ response = NoResponse

\* The handler calls train() on one strategy object and predicts from what
\* the last call left on it: the attempts of a request are its train()
\* calls, the selected one is the last, and the scored ones are the valid
\* ones.
Attempts == 1..train_calls
SelectedAttempt == train_calls
ValidAttempts == IF ValidClustering THEN {SelectedAttempt} ELSE {}

\* C5: the search makes at most 20 train attempts and the attempt whose
\* result is returned is one of the scored (valid) attempts, with no valid
\* attempt of the same search before it of an equal or higher score.
C5_SelectedAttemptIsBestValid ==
    pc = "responded" =>
        /\ Attempts # {}
        /\ train_calls <= 20
        /\ SelectedAttempt \in ValidAttempts
        /\ \A a \in ValidAttempts : a >= SelectedAttempt

(***************************************************************************)
(* Claims about the metric functions (checked under SpecMetrics)           *)
(***************************************************************************)
TradedReturns == StrategyReturns(signal, returns)

MetricNames == {"sharpe_ratio", "annual_return", "win_rate", "max_drawdown"}

HoldStatuses ==
    {"HOLD - No trading signals produced in the last 20 trading days"}

\* C6: when the signal contains no 1, calculate_strategy_metrics reports
\* total_trades = 0, winning_trades = 0, a HOLD status, and a numeric zero
\* (neither NaN nor a non-numeric placeholder) for sharpe_ratio,
\* annual_return, win_rate and max_drawdown.
C6_ZeroTradeSentinelsAreNumericZero ==
    (mpc # "args" /\ \A i \in 1..Len(signal) : signal[i].val = 0) =>
        /\ strategy_out.total_trades = 0
        /\ strategy_out.winning_trades = 0
        /\ "strategy_status" \in DOMAIN strategy_out
        /\ strategy_out.strategy_status \in HoldStatuses
        /\ \A k \in MetricNames :
               IsNumber(strategy_out[k]) /\ IsZero(strategy_out[k])

AgreeOnTradedDays ==
    \A i \in 1..Len(signal) :
        signal[i].val = 1 => returns[i].val = returns_alt[i].val

\* C7: two returns series over the same dates that agree on every day whose
\* signal is 1 get the same total_trades, winning_trades, win_rate,
\* sharpe_ratio, annual_return and max_drawdown, whatever they are on the
\* days whose signal is 0.
C7_MetricsDependOnTradedDaysOnly ==
    (mpc # "args" /\ AgreeOnTradedDays) =>
        \A k \in MetricNames \cup {"total_trades", "winning_trades"} :
            strategy_out[k] = strategy_alt_out[k]

C7_Witness ==
    /\ mpc = "strategy"
    /\ AgreeOnTradedDays
    /\ returns # returns_alt
    /\ strategy_out.total_trades >= 2
    /\ ~IsZero(strategy_out.sharpe_ratio)

\* (mean / std)^2 * 252 * trades / total_days of the traded returns, from
\* the sums of the returns and of their squares.
ExpectedSharpeSquare(xs, total_days) ==
    LET t == Len(xs)
        sum == FSum(xs)
        sumsq == FSum([i \in 1..t |-> FMul(xs[i], xs[i])])
        var == FDiv(FSub(sumsq, FDiv(FMul(sum, sum), Whole(t))), Whole(t - 1))
        mean == FDiv(sum, Whole(t))
    IN  FDiv(FMul(FMul(mean, mean), Frac(TradingDays * t, total_days)), var)

AllEqual(xs) == \A i, j \in 1..Len(xs) : xs[i] = xs[j]

\* C8: the strategy sharpe_ratio is exactly 0 whenever the number of traded
\* days is <= 1 or the standard deviation of the traded returns is 0, and
\* otherwise it is (mean / std) * sqrt(252 * trades / total_days).
C8_StrategySharpe ==
    mpc # "args" =>
        LET xs == TradedReturns
            sharpe == strategy_out.sharpe_ratio
        IN  IF Len(xs) <= 1 \/ AllEqual(xs)
            THEN IsNumber(sharpe) /\ IsZero(sharpe)
            ELSE /\ sharpe.kind = "surd"
                 /\ sharpe.sgn = FSign(FSum(xs))
                 /\ sharpe.sq = ExpectedSharpeSquare(xs, Len(returns))

BaselineIsZero(k) == IsNumber(baseline_out[k]) /\ IsZero(baseline_out[k])

\* C9 as stated: with fewer than 2 observations calculate_baseline_metrics
\* returns accuracy = 0, sharpe_ratio = 0 and annual_return = 0.
C9_Original ==
    (mpc \in {"baseline", "done"} /\ Len(returns) < 2) =>
        /\ BaselineIsZero("accuracy")
        /\ BaselineIsZero("sharpe_ratio")
        /\ BaselineIsZero("annual_return")

\* C9 (amended): with fewer than 2 observations sharpe_ratio = 0 and
\* annual_return = 0; accuracy is 0 for no observation and, for exactly one
\* observation, 1 when that return is positive and 0 otherwise.
C9_BaselineFewObservations ==
    (mpc \in {"baseline", "done"} /\ Len(returns) < 2) =>
        /\ BaselineIsZero("sharpe_ratio")
        /\ BaselineIsZero("annual_return")
        /\ baseline_out.accuracy =
               RatVal(Whole(IF Len(returns) = 1 /\ FSign(returns[1].val) > 0
                            THEN 1 ELSE 0))

C9_Witness ==
    /\ mpc = "baseline"
    /\ Len(returns) = 1
    /\ FSign(returns[1].val) > 0
    /\ baseline_out.accuracy = RatVal(Whole(1))

\* C10 as stated: for a (non-empty) returns series, the strategy metrics of
\* an all-ones signal equal the buy-and-hold baseline: win_rate = accuracy,
\* sharpe_ratio = sharpe_ratio and annual_return = annual_return.
C10_Original ==
    (mpc = "done" /\ Len(returns) >= 1) =>
        /\ RealEq(allones_out.win_rate, baseline_out.accuracy)
        /\ RealEq(allones_out.sharpe_ratio, baseline_out.sharpe_ratio)
        /\ RealEq(allones_out.annual_return, baseline_out.annual_return)

\* C10 (amended): for a non-empty returns series, the strategy metrics of an
\* all-ones signal have win_rate equal to the baseline accuracy and
\* sharpe_ratio equal to the baseline sharpe_ratio (annual_return is
\* computed differently and need not agree).
C10_AllOnesMatchesBaseline ==
    (mpc = "done" /\ Len(returns) >= 1) =>
        /\ RealEq(allones_out.win_rate, baseline_out.accuracy)
        /\ RealEq(allones_out.sharpe_ratio, baseline_out.sharpe_ratio)

C10_Witness ==
    /\ mpc = "done"
    /\ Len(returns) >= 2
    /\ ~IsZero(baseline_out.sharpe_ratio)
    /\ allones_out.total_trades = Len(returns)
    /\ ~RealEq(allones_out.annual_return, baseline_out.annual_return)

\* The labels train() gave and the different rows of the feature table.
DistinctLabels == {clusters[i] : i \in 1..Len(clusters)}
DistinctRows == {RowKey(features[i]) : i \in 1..Len(features)}

AllClustersPresent ==
    /\ Cardinality(DistinctLabels) = n_clusters
    /\ DOMAIN cluster_performance = 0..(n_clusters - 1)
    /\ pc = "responded" => Cardinality(DOMAIN response.clusters) = n_clusters

CompleteResult ==
    /\ response.success
    /\ Len(predictions) = Len(features)
    /\ \A i \in 1..Len(features) : predictions[i].date = features[i].date
    /\ response.metrics = strategy_metrics
    /\ response.buy_hold_metrics = baseline_metrics
    /\ DOMAIN response.clusters = DOMAIN cluster_performance

\* C20: a request ends with a complete result or with a failure; a failure
\* is raised on the data, before any clustering (no or insufficient data),
\* or as the no-valid-clustering error; none is raised after a valid
\* clustering, and a failed request returns no part of a result.
C20_CompleteResultOrEarlyFailure ==
    /\ pc = "responded" => CompleteResult
    /\ pc = "failed" =>
           /\ response = NoResponse
           /\ \/ train_calls = 0
              \/ ~ValidClustering /\ detail = NoValidClusteringDetail

IsFinite(v) == v.kind \notin {"nan", "inf"}

\* C22: every floating value of a prediction response (strategy, baseline
\* and recent metrics, mean_return and sharpe of each cluster) is finite:
\* no NaN, +Infinity or -Infinity passes the boundary.
C22_ResponseFloatsFinite ==
    pc = "responded" =>
        /\ \A part \in {"metrics", "buy_hold_metrics", "recent_metrics"} :
               \A k \in FloatKeys \cap DOMAIN response[part] :
                   IsFinite(response[part][k])
        /\ \A c \in DOMAIN response.clusters :
               /\ IsFinite(response.clusters[c].mean_return)
               /\ IsFinite(response.clusters[c].sharpe)

PrepareReturned ==
    apc = "returned" /\ method = "prepare_features_for_clustering"

TableReturned == PrepareReturned /\ result.kind = "table"

\* What each indicator gives for a field, before any fill.
RawFeature(name) ==
    CASE name = "return_1d" -> daily_returns(self_data)
      [] name = "vol" -> calculate_volatility(self_data, VolatilityWindow)[2]
      [] name = "momentum_20d" ->
             calculate_momentum(self_data, MomentumPeriods)["momentum_20d"]
      [] name = "rsi" -> calculate_rsi(self_data, RsiWindow)
      [] name = "bb_position" ->
             calculate_bollinger_bands(self_data, BollingerWindow,
                                       Whole(BollingerNumStd))["BB_%B"]
      [] name = "dollar_volume" -> calculate_dollar_volume(self_data)
      [] name = "relative_volume" ->
             calculate_relative_volume(self_data, RelativeVolumeWindow)
      [] name = "garman_klass_vol" ->
             calculate_garman_klass_volatility(self_data)

FieldDefault(name) ==
    CASE name = "rsi" -> Num(50)
      [] name = "bb_position" -> RatVal(Frac(1, 2))
      [] name = "relative_volume" -> Num(1)
      [] OTHER -> Num(0)

Defined(raw) == {j \in 1..Len(raw) : ~IsNaN(raw[j])}

\* Row i of raw after a forward fill and then a backward fill: its own
\* value, else that of the nearest defined row before it, else that of the
\* nearest defined row after it, else still undefined.
ForwardBackward(raw, i) ==
    LET before == {j \in Defined(raw) : j < i}
        after == {j \in Defined(raw) : j > i}
    IN  IF i \in Defined(raw) THEN raw[i]
        ELSE IF before # {} THEN raw[CHOOSE j \in before : \A k \in before : k <= j]
        ELSE IF after # {} THEN raw[CHOOSE j \in after : \A k \in after : j <= k]
        ELSE NaN

OrDefault(v, name) == IF IsNaN(v) THEN FieldDefault(name) ELSE v

FeatureNames == {FeatureColumns[k] : k \in 1..Len(FeatureColumns)}

\* C11 as stated: every field of the returned table is the indicator's
\* column forward-filled, then backward-filled, with the field default
\* (rsi 50, bb_position 0.5, relative_volume 1, others 0) only where a gap
\* remains.
C11_Original ==
    TableReturned =>
        \A name \in FeatureNames :
            LET raw == RawFeature(name)
            IN  \A k \in 1..Len(result.index) :
                    result.col[name][k] =
                        OrDefault(ForwardBackward(raw, result.index[k]), name)

\* C11 (amended): in the returned table an undefined return_1d, rsi or
\* bb_position entry is replaced by the field default (0, 50, 0.5) without
\* any fill, so a leading undefined rsi or bb_position is its default; vol,
\* dollar_volume and garman_klass_vol are forward-filled and then
\* backward-filled; relative_volume is as calculate_relative_volume
\* returns it.
C11_FillPolicyPerField ==
    TableReturned =>
        /\ \A name \in {"return_1d", "rsi", "bb_position"} :
               LET raw == RawFeature(name)
               IN  \A k \in 1..Len(result.index) :
                       result.col[name][k] = OrDefault(raw[result.index[k]], name)
        /\ \A name \in {"vol", "dollar_volume", "garman_klass_vol"} :
               LET raw == RawFeature(name)
               IN  \A k \in 1..Len(result.index) :
                       result.col[name][k] = ForwardBackward(raw, result.index[k])
        /\ result.col.relative_volume = RawFeature("relative_volume")

\* A returned table whose leading rsi is the default although a later rsi
\* is defined and differs, and whose leading dollar_volume is back-filled.
C11_Witness ==
    /\ TableReturned
    /\ LET rsi == RawFeature("rsi")
           dollar_volume == RawFeature("dollar_volume")
       IN  /\ IsNaN(rsi[1])
           /\ \E j \in Defined(rsi) : rsi[j] # Num(50)
           /\ result.col.rsi[1] = Num(50)
           /\ IsNaN(dollar_volume[1])
           /\ result.col.dollar_volume[1] = dollar_volume[2]

\* C12: every table prepare_features_for_clustering returns has exactly the
\* 8 fields return_1d, vol, momentum_20d, rsi, bb_position, dollar_volume,
\* relative_volume, garman_klass_vol in that order, and no undefined entry
\* in any row.
C12_TableHasEightDefinedFields ==
    TableReturned =>
        /\ result.columns =
               <<"return_1d", "vol", "momentum_20d", "rsi", "bb_position",
                 "dollar_volume", "relative_volume", "garman_klass_vol">>
        /\ DOMAIN result.col = {result.columns[k] : k \in 1..Len(result.columns)}
        /\ \A name \in DOMAIN result.col :
               /\ Len(result.col[name]) = Len(result.index)
               /\ \A k \in 1..Len(result.index) : ~IsNaN(result.col[name][k])

\* A returned table over a frame whose indicators had undefined entries in
\* the middle and at the start.
C12_Witness ==
    /\ TableReturned
    /\ Len(result.index) >= MinValidRows
    /\ IsNaN(self_data.Volume[30])
    /\ IsNaN(RawFeature("garman_klass_vol")[50])
    /\ IsNaN(RawFeature("vol")[1])

\* The rows that are fully defined once every field is forward-filled,
\* backward-filled and, where a gap remains, set to its default.
RowsDefinedByPolicy ==
    {i \in 1..RowsOf(self_data) :
        \A name \in FeatureNames :
            ~IsNaN(OrDefault(ForwardBackward(RawFeature(name), i), name))}

\* C13: prepare_features_for_clustering fails with the insufficient-data
\* error exactly when fewer than 20 rows are fully defined after the fill
\* policy (defaults included), and returns a table otherwise.
C13_FailsIffFewerThanTwentyRows ==
    PrepareReturned =>
        IF Cardinality(RowsDefinedByPolicy) < 20
        THEN result.kind = "raised"
        ELSE result.kind = "table"

\* C14: in the returned table momentum_20d is the 20-period percentage
\* change of the close (calculate_momentum, key momentum_20d) wherever that
\* change is defined, and 0 where it is undefined.
C14_MomentumIsTwentyDayChange ==
    TableReturned =>
        LET raw == RawFeature("momentum_20d")
        IN  \A k \in 1..Len(result.index) :
                result.col.momentum_20d[k] =
                    IF IsNaN(raw[result.index[k]]) THEN Num(0)
                    ELSE raw[result.index[k]]

RsiReturned == apc = "returned" /\ method = "calculate_rsi"

\* The gain (side = 1) or the loss (side = -1) of each day: the rise or the
\* fall of the close since the day before, 0 when it moved the other way.
DailyMove(close, side) ==
    AsSeries([i \in 1..Len(close) |->
                 IF i = 1 \/ IsNaN(close[i]) \/ IsNaN(close[i - 1]) THEN NaN
                 ELSE RatVal(FMax(Whole(0),
                                  FMul(Whole(side),
                                       FSub(close[i].rat, close[i - 1].rat))))])

InZeroToHundred(v) ==
    /\ v.kind = "rat"
    /\ FLe(Whole(0), v.rat)
    /\ FLe(v.rat, Whole(100))

\* C15: every defined value calculate_rsi returns lies in [0, 100], and the
\* value is exactly 100 at each position where the rolling average loss is
\* 0 and the rolling average gain is greater than 0.
C15_RsiWithinBounds ==
    RsiReturned =>
        LET avg_gain == RollingMean(DailyMove(self_data.Close, 1), args[1])
            avg_loss == RollingMean(DailyMove(self_data.Close, -1), args[1])
        IN  /\ Len(result) = RowsOf(self_data)
            /\ \A i \in 1..Len(result) :
                   /\ ~IsNaN(result[i]) => InZeroToHundred(result[i])
                   /\ (/\ avg_loss[i].kind = "rat"
                       /\ avg_loss[i].rat.num = 0
                       /\ avg_gain[i].kind = "rat"
                       /\ avg_gain[i].rat.num > 0) => result[i] = Num(100)

\* An rsi column with an undefined entry, a 100 after a window of rises
\* only, and a value strictly between 0 and 100 after a window with a fall.
C15_Witness ==
    /\ RsiReturned
    /\ \E i, j, k \in 1..Len(result) :
           /\ IsNaN(result[i])
           /\ result[j] = Num(100)
           /\ result[k].kind = "rat"
           /\ FLt(Whole(0), result[k].rat)
           /\ FLt(result[k].rat, Whole(100))
           /\ \E d \in (k - args[1] + 1)..k :
                  FLt(self_data.Close[d].rat, self_data.Close[d - 1].rat)

BandsReturned == apc = "returned" /\ method = "calculate_bollinger_bands"

\* rat + surd >= bound, for a band rat + surd and a rational bound.
BandAtLeast(band, bound) ==
    LET gap == FSub(bound, band.rat)
    IN  IF band.surd.sgn >= 0
        THEN FSign(gap) <= 0 \/ FLe(FMul(gap, gap), band.surd.sq)
        ELSE FSign(gap) <= 0 /\ FLe(band.surd.sq, FMul(gap, gap))

\* rat + surd <= bound.
BandAtMost(band, bound) ==
    LET gap == FSub(bound, band.rat)
    IN  IF band.surd.sgn <= 0
        THEN FSign(gap) >= 0 \/ FLe(FMul(gap, gap), band.surd.sq)
        ELSE FSign(gap) >= 0 /\ FLe(band.surd.sq, FMul(gap, gap))

\* C16: for num_std > 0, at every row where BB_Upper, BB_Middle and BB_Lower
\* are all defined, BB_Upper >= BB_Middle >= BB_Lower.
C16_BandsOrdered ==
    (BandsReturned /\ FSign(args[2]) > 0) =>
        \A i \in 1..RowsOf(self_data) :
            (/\ ~IsNaN(result["BB_Upper"][i])
             /\ ~IsNaN(result["BB_Middle"][i])
             /\ ~IsNaN(result["BB_Lower"][i])) =>
                /\ BandAtLeast(result["BB_Upper"][i], result["BB_Middle"][i].rat)
                /\ BandAtMost(result["BB_Lower"][i], result["BB_Middle"][i].rat)

\* Bands for a positive num_std with an undefined leading row, a row where
\* the three bands differ and a row where the window was flat and they
\* coincide.
C16_Witness ==
    /\ BandsReturned
    /\ FSign(args[2]) > 0
    /\ \E i, j, k \in 1..RowsOf(self_data) :
           /\ IsNaN(result["BB_Upper"][i])
           /\ ~IsNaN(result["BB_Upper"][j])
           /\ ~BandAtMost(result["BB_Upper"][j], result["BB_Middle"][j].rat)
           /\ ~BandAtLeast(result["BB_Lower"][j], result["BB_Middle"][j].rat)
           /\ ~IsNaN(result["BB_Upper"][k])
           /\ BandAtMost(result["BB_Upper"][k], result["BB_Middle"][k].rat)
           /\ BandAtLeast(result["BB_Lower"][k], result["BB_Middle"][k].rat)

RelativeVolumeReturned ==
    apc = "returned" /\ method = "calculate_relative_volume"

\* The rows where the rolling mean of the volume is zero or volume / mean
\* is undefined.
NoRatioRows(window) ==
    LET mean == RollingMean(self_data.Volume, window)
    IN  {i \in 1..RowsOf(self_data) :
            \/ IsNaN(mean[i])
            \/ mean[i].rat.num = 0
            \/ IsNaN(self_data.Volume[i])}

WellFormedInput ==
    /\ data_arg.type = "DataFrame"
    /\ \A c \in {"Open", "High", "Low", "Close", "Volume"} :
           /\ c \in DOMAIN data_arg.columns
           /\ Len(data_arg.columns[c]) > 0

\* C21: on an input that is not a table, has zero rows or lacks one of
\* Open, High, Low, Close, Volume the constructor fails, and no indicator
\* method is called on an analyzer built from it; an analyzer is
\* constructed only from a well-formed input, whose data it holds.
C21_ConstructorRejectsMalformedInput ==
    /\ (apc # "new" /\ ~WellFormedInput) =>
           /\ apc = "rejected"
           /\ result.kind = "raised"
           /\ result.error \in {"TypeError", "ValueError"}
           /\ method = ""
    /\ apc \in {"constructed", "returned"} =>
           /\ WellFormedInput
           /\ self_data = data_arg.columns

\* A frame with rows and four of the five columns, refused.
C21_Witness ==
    /\ apc = "rejected"
    /\ data_arg.type = "DataFrame"
    /\ DOMAIN data_arg.columns = {"Open", "High", "Low", "Close"}
    /\ Len(data_arg.columns.Close) = 2
    /\ result = Raised("ValueError", "Missing required columns")
    /\ method = ""

ZeroTradeRequestOver ==
    /\ pc \in {"responded", "failed"}
    /\ train_calls > 0
    /\ Len(predictions) = Len(features)
    /\ \A i \in 1..Len(predictions) : predictions[i].val = 0

\* C26: a request whose trained strategy yields an all-zero signal ends with
\* a successful, complete response (signal HOLD/SELL, total_trades 0, the
\* baseline metrics, the clusters), not with an error raised while the
\* overview, the confidence or the comparison with the baseline is built.
C26_ZeroTradeRequestCompletes ==
    ZeroTradeRequestOver =>
        /\ pc = "responded"
        /\ status = 200
        /\ response.success
        /\ response.signal = "HOLD/SELL"
        /\ response.metrics.total_trades = 0
        /\ {"buy_hold_metrics", "clusters", "confidence",
            "strategy_vs_baseline"} \subseteq DOMAIN response

(***************************************************************************)
(* Claims about the rows a request needs                                   *)
(***************************************************************************)
\* max(20, n_clusters x min_cluster_size) of the request.
RowsRequired ==
    IF n_clusters * min_cluster_size > MinRequired
    THEN n_clusters * min_cluster_size
    ELSE MinRequired

\* C30: a request whose feature table, cut to the requested dates, has fewer
\* than max(20, n_clusters x min_cluster_size) rows is answered with 400 and
\* no clustering is trained for it; train() is reached only with at least
\* that many rows, n_clusters in 2..10 and min_cluster_size >= 3.
C30_TooFewRowsRejectedBeforeTraining ==
    /\ (features # <<>> /\ Len(features) < RowsRequired) =>
           /\ pc = "failed"
           /\ status = 400
           /\ train_calls = 0
           /\ ~trained
    /\ (train_calls > 0 \/ trained) =>
           /\ Len(features) >= RowsRequired
           /\ n_clusters \in 2..10
           /\ min_cluster_size >= 3

\* A table of 20 rows refused for a request that needs 21.
C30_Witness ==
    /\ pc = "failed"
    /\ status = 400
    /\ Len(features) = MinRequired
    /\ RowsRequired > MinRequired
    /\ train_calls = 0

(***************************************************************************)
(* Claims about the chart route                                            *)
(***************************************************************************)
\* The fetched value is a table with rows and the five price columns.
HasPriceData(fetched) ==
    /\ fetched.type = "DataFrame"
    /\ \A c \in required_columns :
           c \in DOMAIN fetched.columns /\ Len(fetched.columns[c]) > 0

\* C25: a chart request for a ticker that has price data is answered with
\* status 200 and success = true, with dates, ohlc, volume and indicators,
\* for chart_type candlestick and for chart_type technical.
C25_ChartRequestSucceeds ==
    (/\ cpc \in {"responded", "failed"}
     /\ HasPriceData(chart_fetched)
     /\ chart_type \in {"candlestick", "technical"})
        => /\ chart_status = 200
           /\ chart_body.success
           /\ {"dates", "ohlc", "volume", "indicators"}
                  \subseteq DOMAIN chart_body.data

(***************************************************************************)
(* Claims about the strategy and its StockPredictor                        *)
(***************************************************************************)
\* C27: predict() and evaluate() before any train() raise 'Model needs to be
\* trained first' and leave clusters unset and cluster_performance empty;
\* so does StockPredictor.predict(name) for a registered, untrained
\* strategy; StockPredictor.predict raises for a name never added.
C27_UntrainedCallsFail ==
    /\ (spc # "idle" /\ ~strategy_trained) =>
           /\ strategy_clusters = <<>>
           /\ DOMAIN strategy_performance = {}
           /\ last_call \in {"predict", "evaluate"} =>
                  /\ outcome.kind = "raised"
                  /\ outcome.message = "Model needs to be trained first"
           /\ (last_call = "StockPredictor.predict" /\ last_name \in strategies)
                  => /\ outcome.kind = "raised"
                     /\ outcome.message = "Model needs to be trained first"
    /\ (last_call = "StockPredictor.predict" /\ last_name \notin strategies)
           => outcome.kind = "raised"

\* predict(), evaluate() and StockPredictor.predict of a registered name
\* have each been refused before training.
C27_Witness ==
    /\ ~strategy_trained
    /\ last_call = "StockPredictor.predict"
    /\ last_name \in strategies
    /\ outcome.kind = "raised"
    /\ Len(strategy_data) = StrategyRows

LabelsUsed == {strategy_clusters[i] : i \in 1..Len(strategy_clusters)}

RowsLabelled(c) ==
    Cardinality({i \in 1..Len(strategy_clusters) : strategy_clusters[i] = c})

TrainReturned == last_call = "train" /\ outcome.kind = "returned"

\* C28: after any sequence of train() calls, cluster_performance has an
\* entry for a cluster id exactly when the latest labels use that id, and
\* the size, mean_return, sharpe and win_rate of each entry are those of the
\* rows the latest labels give that id; no entry of an earlier training is
\* left.
C28_PerformanceOfLatestTraining ==
    strategy_trained =>
        /\ DOMAIN strategy_performance = LabelsUsed
        /\ \A c \in DOMAIN strategy_performance :
               strategy_performance[c].size = RowsLabelled(c)
        /\ TrainReturned =>
               \A c \in DOMAIN strategy_performance :
                   strategy_performance[c] =
                       ClusterStats(ClusterReturns(strategy_data, c))

RECURSIVE SizesOf(_, _)
SizesOf(performance, ids) ==
    IF ids = {} THEN 0
    ELSE LET c == CHOOSE x \in ids : TRUE
         IN  performance[c].size + SizesOf(performance, ids \ {c})

\* C29: after a successful train() every row has one label in
\* 0..n_clusters-1, the sizes in cluster_performance sum to the number of
\* rows, each size is the number of rows with that label and the entry of
\* evaluate()'s cluster_sizes, and the feature columns are as before.
C29_TrainLabelsAndSizes ==
    TrainReturned =>
        /\ Len(strategy_clusters) = Len(strategy_data)
        /\ \A i \in 1..Len(strategy_data) :
               /\ strategy_clusters[i] \in 0..(strategy_n - 1)
               /\ strategy_data[i].cluster = strategy_clusters[i]
        /\ FeatureRows(strategy_data) = FeatureRows(data_before)
        /\ SizesOf(strategy_performance, DOMAIN strategy_performance)
               = Len(strategy_data)
        /\ \A c \in DOMAIN strategy_performance :
               /\ strategy_performance[c].size = RowsLabelled(c)
               /\ strategy_performance[c].size =
                      Evaluate(strategy_clusters, strategy_n,
                               strategy_performance).cluster_sizes[c]

====
